---- MODULE Spec2Model ----
(***************************************************************************)
(* Model of the pothole-report pipeline (src/src/pothole_report):          *)
(* load_config, scan_folder, extract_all, _generate_report_text and the    *)
(* orchestration in cli.main.                                              *)
(*                                                                         *)
(* Python strings are sequences of one-character strings, so that split,   *)
(* strip, join and lexicographic comparison are computed, not assumed.     *)
(* Python dicts are sequences of <<key, value>> pairs with unique keys, in *)
(* insertion order.                                                        *)
(***************************************************************************)
EXTENDS Integers, Sequences, FiniteSets, TLC

(***************************************************************************)
(* Strings                                                                 *)
(***************************************************************************)

\* The characters the model uses, in ascending codepoint order.
CharOrder ==
    << "\n", " ", "'", ",", "-", ".", "0", "1", "2", "3", "4", "5", "6", "7",
       "8", "9", ":", "A", "B", "C", "D", "E", "G", "H", "I", "J", "K", "M",
       "N", "P", "R", "S", "T", "U", "W", "X", "Z", "[", "]", "_", "a", "b", "c", "d", "e", "f", "g", "h",
       "i", "j", "l", "m", "n", "o", "p", "q", "r", "s", "t", "u", "v", "w",
       "x", "y", "z", "{", "}" >>

\* ord(c)
Code(c) == CHOOSE i \in DOMAIN CharOrder : CharOrder[i] = c

\* Python's str < str : lexicographic by codepoint, a proper prefix is smaller.
RECURSIVE StrLess(_, _)
StrLess(a, b) ==
    IF b = <<>> THEN FALSE
    ELSE IF a = <<>> THEN TRUE
    ELSE IF Head(a) # Head(b) THEN Code(Head(a)) < Code(Head(b))
    ELSE StrLess(Tail(a), Tail(b))

\* The whitespace characters of the model (str.strip() strips them).
Whitespace == {" ", "\n"}

RECURSIVE LStrip(_)
LStrip(s) ==
    IF s # <<>> /\ Head(s) \in Whitespace THEN LStrip(Tail(s)) ELSE s

RECURSIVE RStrip(_)
RStrip(s) ==
    IF s # <<>> /\ s[Len(s)] \in Whitespace
    THEN RStrip(SubSeq(s, 1, Len(s) - 1))
    ELSE s

\* str.strip()
Strip(s) == RStrip(LStrip(s))

\* c in s, for a single character c
HasChar(s, c) == \E i \in DOMAIN s : s[i] = c

\* str.split(sep) for a single-character separator: always at least one item.
RECURSIVE SplitFrom(_, _, _, _)
SplitFrom(s, sep, i, cur) ==
    IF i > Len(s) THEN << cur >>
    ELSE IF s[i] = sep THEN << cur >> \o SplitFrom(s, sep, i + 1, <<>>)
    ELSE SplitFrom(s, sep, i + 1, Append(cur, s[i]))

Split(s, sep) == SplitFrom(s, sep, 1, <<>>)

\* sep.join(parts)
RECURSIVE Join(_, _)
Join(parts, sep) ==
    IF parts = <<>> THEN <<>>
    ELSE IF Len(parts) = 1 THEN parts[1]
    ELSE parts[1] \o sep \o Join(Tail(parts), sep)

\* sub in s (substring test of Python's `in` on two strings)
IsSubstring(sub, s) ==
    \E i \in 1..(Len(s) - Len(sub) + 1) : SubSeq(s, i, i + Len(sub) - 1) = sub

\* [f(x) for x in seq if keep(x)]
RECURSIVE StripNonEmpty(_)
StripNonEmpty(items) ==
    IF items = <<>> THEN <<>>
    ELSE LET v == Strip(Head(items))
         IN  (IF v # <<>> THEN << v >> ELSE <<>>) \o StripNonEmpty(Tail(items))

(***************************************************************************)
(* Dicts: sequences of <<key, value>> pairs                                *)
(***************************************************************************)

HasKey(d, k) == \E i \in DOMAIN d : d[i][1] = k

Lookup(d, k) == d[CHOOSE i \in DOMAIN d : d[i][1] = k][2]

Keys(d) == [i \in DOMAIN d |-> d[i][1]]

\* d[k] = v
Put(d, k, v) ==
    IF HasKey(d, k)
    THEN [i \in DOMAIN d |-> IF d[i][1] = k THEN << k, v >> ELSE d[i]]
    ELSE Append(d, << k, v >>)

(***************************************************************************)
(* YAML documents as yaml.safe_load returns them                           *)
(***************************************************************************)

YNull == [t |-> "null", s |-> <<>>, kv |-> <<>>]
YStr(x) == [t |-> "str", s |-> x, kv |-> <<>>]
\* an int, written by its decimal digits
YInt(digits) == [t |-> "int", s |-> digits, kv |-> <<>>]
YMap(pairs) == [t |-> "map", s |-> <<>>, kv |-> pairs]
YList(elems) ==
    [t |-> "list", s |-> <<>>, kv |-> [i \in DOMAIN elems |-> << <<>>, elems[i] >>]]

\* bool(x)
Truthy(n) ==
    CASE n.t = "null" -> FALSE
      [] n.t = "str" -> n.s # <<>>
      [] n.t = "int" -> n.s # << "0" >>
      [] OTHER -> n.kv # <<>>

\* repr(x), and str(x)
RECURSIVE PyRepr(_)
RECURSIVE ReprItems(_, _)
ReprItems(kv, isMap) ==
    IF kv = <<>> THEN <<>>
    ELSE (IF isMap THEN << "'" >> \o kv[1][1] \o << "'", ":", " " >> ELSE <<>>)
         \o PyRepr(kv[1][2])
         \o (IF Len(kv) > 1 THEN << ",", " " >> ELSE <<>>)
         \o ReprItems(Tail(kv), isMap)

PyRepr(n) ==
    CASE n.t = "null" -> << "N", "o", "n", "e" >>
      [] n.t = "str" -> << "'" >> \o n.s \o << "'" >>
      [] n.t = "int" -> n.s
      [] n.t = "list" -> << "[" >> \o ReprItems(n.kv, FALSE) \o << "]" >>
      [] OTHER -> << "{" >> \o ReprItems(n.kv, TRUE) \o << "}" >>

PyStr(n) == IF n.t = "str" THEN n.s ELSE PyRepr(n)

\* data.get(key) on a mapping: None when the key is absent
YGet(data, key) == IF HasKey(data.kv, key) THEN Lookup(data.kv, key) ELSE YNull

\* data.get(key, default)
YGetOr(data, key, default) ==
    IF HasKey(data.kv, key) THEN Lookup(data.kv, key) ELSE default

(***************************************************************************)
(* Literals of the program                                                 *)
(***************************************************************************)

S_email == << "e", "m", "a", "i", "l" >>
S_report_url == << "r", "e", "p", "o", "r", "t", "_", "u", "r", "l" >>
S_keyring_account == << "k", "e", "y", "r", "i", "n", "g", "_", "a", "c", "c", "o", "u", "n", "t" >>
S_attributes == << "a", "t", "t", "r", "i", "b", "u", "t", "e", "s" >>
S_report_template == << "r", "e", "p", "o", "r", "t", "_", "t", "e", "m", "p", "l", "a", "t", "e" >>
S_attribute_phrases == << "a", "t", "t", "r", "i", "b", "u", "t", "e", "_", "p", "h", "r", "a", "s", "e", "s" >>
S_advice_for_reporters == << "a", "d", "v", "i", "c", "e", "_", "f", "o", "r", "_", "r", "e", "p", "o", "r", "t", "e", "r", "s" >>
S_key_phrases == << "k", "e", "y", "_", "p", "h", "r", "a", "s", "e", "s" >>
S_pro_tip == << "p", "r", "o", "_", "t", "i", "p" >>
S_severity == << "s", "e", "v", "e", "r", "i", "t", "y" >>
S_depth == << "d", "e", "p", "t", "h" >>
S_edge == << "e", "d", "g", "e" >>
S_width == << "w", "i", "d", "t", "h" >>
S_location == << "l", "o", "c", "a", "t", "i", "o", "n" >>
S_visibility == << "v", "i", "s", "i", "b", "i", "l", "i", "t", "y" >>
S_surface == << "s", "u", "r", "f", "a", "c", "e" >>
S_description_suffix == << "_", "d", "e", "s", "c", "r", "i", "p", "t", "i", "o", "n" >>
S_MEDIUM_RISK == << "M", "E", "D", "I", "U", "M", " ", "R", "I", "S", "K" >>
DefaultReportUrl == << "h", "t", "t", "p", "s", ":", "/", "/", "w", "w", "w", ".", "f", "i", "l", "l", "t", "h", "a", "t", "h", "o", "l", "e", ".", "o", "r", "g", ".", "u", "k" >>

\* SERVICE_NAME
SERVICE_NAME == "pothole-report"

(***************************************************************************)
(* config.py: load_config                                                  *)
(***************************************************************************)

\* The paths of the model are opaque names.
NoPath == "None"
OverridePath == "/override/pothole-report.yaml"
ProjectPath == "<project_root>/conf/pothole-report.yaml"
HomePath == "~/.config/pothole-report/pothole-report.yaml"

\* The default locations searched as well when an override is given.
ConfigPathsWithDefaults(override) ==
    IF override # NoPath THEN << override, ProjectPath, HomePath >>
    ELSE << ProjectPath, HomePath >>

\* _config_paths(override)
ConfigPaths(override) ==
    IF override # NoPath THEN << override >> ELSE << ProjectPath, HomePath >>

\* An optional string: None, or a string.
None == [some |-> FALSE, v |-> <<>>]
Some(x) == [some |-> TRUE, v |-> x]

\* keyring.get_password(SERVICE_NAME, account); the keyring is a dict of the
\* entries stored under SERVICE_NAME.
GetPassword(keyring, account) ==
    IF HasKey(keyring, account) THEN Some(Lookup(keyring, account)) ELSE None

\* The stored value as it is, not stripped.
GetEmailUnstripped(keyring, account) ==
    LET value == GetPassword(keyring, account)
    IN  IF value.some /\ value.v # <<>> THEN Some(value.v) ELSE None

\* _get_email_from_keyring(account): value.strip() if value else None
GetEmailFromKeyring(keyring, account) ==
    LET value == GetPassword(keyring, account)
    IN  IF value.some /\ value.v # <<>> THEN Some(Strip(value.v)) ELSE None

\* `not email`
NotEmail(email) == ~email.some \/ email.v = <<>>

\* _validate_attributes(attributes): the first violation in iteration order,
\* as [error, key, valkey]; error "none" when the structure is valid.
Valid == [error |-> "none", key |-> <<>>, valkey |-> <<>>]

BadDescriptions(attr_values) ==
    { j \in DOMAIN attr_values.kv : attr_values.kv[j][2].t # "str" }

BadCategory(attributes, i) ==
    \/ attributes.kv[i][2].t # "map"
    \/ BadDescriptions(attributes.kv[i][2]) # {}

Min(S) == CHOOSE x \in S : \A y \in S : x <= y

ValidateAttributes(attributes) ==
    IF attributes.t # "map"
    THEN [error |-> "attributes_not_dict", key |-> <<>>, valkey |-> <<>>]
    ELSE LET bad == { i \in DOMAIN attributes.kv : BadCategory(attributes, i) }
         IN  IF bad = {} THEN Valid
             ELSE LET i == Min(bad)
                      attr_name == attributes.kv[i][1]
                      attr_values == attributes.kv[i][2]
                  IN  IF attr_values.t # "map"
                      THEN [error |-> "category_not_dict", key |-> attr_name,
                            valkey |-> <<>>]
                      ELSE [error |-> "description_not_str", key |-> attr_name,
                            valkey |-> attr_values.kv[Min(BadDescriptions(attr_values))][1]]

\* {str(k): str(v) for k, v in d.items()}
StrItems(kv) == [i \in DOMAIN kv |-> << kv[i][1], PyStr(kv[i][2]) >>]

\* The normalised attributes: category -> value-key -> description.
NormalizeAttributes(raw_attributes) ==
    [i \in DOMAIN raw_attributes.kv |->
        << raw_attributes.kv[i][1], StrItems(raw_attributes.kv[i][2].kv) >>]

\* One entry of attribute_phrases: a dict of strings when the sub-table is a
\* mapping, str(phrase_values) otherwise.
PhraseTable(kv) == [t |-> "map", s |-> <<>>, kv |-> kv]
PhraseString(x) == [t |-> "str", s |-> x, kv |-> <<>>]

PhraseEntry(phrase_values) ==
    IF phrase_values.t = "map"
    THEN PhraseTable(StrItems(phrase_values.kv))
    ELSE PhraseString(PyStr(phrase_values))

\* The loop over raw_phrases.items()
NormalizePhrases(data) ==
    LET got == YGetOr(data, S_attribute_phrases, YMap(<<>>))
        raw_phrases == IF got.t = "map" THEN got ELSE YMap(<<>>)
    IN  [i \in DOMAIN raw_phrases.kv |->
            << raw_phrases.kv[i][1], PhraseEntry(raw_phrases.kv[i][2]) >>]

\* advice_for_reporters
NormalizeAdvice(data) ==
    LET got == YGetOr(data, S_advice_for_reporters, YMap(<<>>))
        raw_advice == IF got.t = "map" THEN got ELSE YMap(<<>>)
        kp == YGet(raw_advice, S_key_phrases)
    IN  [key_phrases |->
            IF kp.t = "list" THEN [i \in DOMAIN kp.kv |-> PyStr(kp.kv[i][2])]
            ELSE <<>>,
         pro_tip |-> PyStr(YGetOr(raw_advice, S_pro_tip, YStr(<<>>)))]

NoConfig ==
    [report_url |-> <<>>, email |-> <<>>, attributes |-> <<>>,
     report_template |-> <<>>, attribute_phrases |-> <<>>,
     advice_for_reporters |-> [key_phrases |-> <<>>, pro_tip |-> <<>>],
     loaded_from |-> NoPath, keyring_service |-> SERVICE_NAME,
     keyring_account |-> <<>>]

\* What a call of load_config ends with: kind is "ok" or the class of the
\* exception raised; error says which failure; key/valkey the names the
\* message carries; searched the paths a FileNotFoundError lists; path the
\* file that was opened.
Raised(kind, error, key, valkey, searched, path) ==
    [kind |-> kind, error |-> error, key |-> key, valkey |-> valkey,
     searched |-> searched, path |-> path, config |-> NoConfig]

Returned(path, config) ==
    [kind |-> "ok", error |-> "none", key |-> <<>>, valkey |-> <<>>,
     searched |-> <<>>, path |-> path, config |-> config]

\* The loop body with the email looked up after the file's own checks.
LoadFromEmailLast(path, file, keyring) ==
    IF ~file.wellformed
    THEN Raised("YAMLError", "yaml_error", <<>>, <<>>, <<>>, path)
    ELSE
    LET data == IF Truthy(file.doc) THEN file.doc ELSE YMap(<<>>)
    IN
    IF data.t # "map"
    THEN Raised("AttributeError", "no_get", <<>>, <<>>, <<>>, path)
    ELSE
    LET report_url == PyStr(YGetOr(data, S_report_url, YStr(DefaultReportUrl)))
        keyring_account == PyStr(YGetOr(data, S_keyring_account, YStr(S_email)))
        email == GetEmailFromKeyring(keyring, keyring_account)
        raw_attributes == YGet(data, S_attributes)
        report_template == YGet(data, S_report_template)
    IN
    IF raw_attributes.t = "null"
    THEN Raised("ValueError", "attributes_missing", <<>>, <<>>, <<>>, path)
    ELSE IF ValidateAttributes(raw_attributes).error # "none"
    THEN LET v == ValidateAttributes(raw_attributes)
         IN  Raised("ValueError", v.error, v.key, v.valkey, <<>>, path)
    ELSE IF report_template.t = "null"
    THEN Raised("ValueError", "template_missing", <<>>, <<>>, <<>>, path)
    ELSE IF report_template.t # "str"
    THEN Raised("ValueError", "template_not_str", <<>>, <<>>, <<>>, path)
    ELSE IF NotEmail(email)
    THEN Raised("ValueError", "email_not_found", keyring_account, <<>>, <<>>, path)
    ELSE Returned(path,
            [report_url |-> report_url,
             email |-> email.v,
             attributes |-> NormalizeAttributes(raw_attributes),
             report_template |-> report_template.s,
             attribute_phrases |-> NormalizePhrases(data),
             advice_for_reporters |-> NormalizeAdvice(data),
             loaded_from |-> path,
             keyring_service |-> SERVICE_NAME,
             keyring_account |-> keyring_account])

\* The loop body that takes the email the file writes, when it writes one
LoadFromFileEmail(path, file, keyring) ==
    LET loaded == LoadFromEmailLast(path, file, keyring)
    IN  IF loaded.kind = "ok" /\ HasKey(file.doc.kv, S_email)
        THEN [loaded EXCEPT !.config.email = PyStr(YGet(file.doc, S_email))]
        ELSE loaded

\* The body of load_config's loop for the first existing path.
LoadFrom(path, file, keyring) ==
    IF ~file.wellformed
    THEN Raised("YAMLError", "yaml_error", <<>>, <<>>, <<>>, path)
    ELSE
    LET data == IF Truthy(file.doc) THEN file.doc ELSE YMap(<<>>)
    IN
    IF data.t # "map"
    THEN Raised("AttributeError", "no_get", <<>>, <<>>, <<>>, path)
    ELSE
    LET report_url == PyStr(YGetOr(data, S_report_url, YStr(DefaultReportUrl)))
        keyring_account == PyStr(YGetOr(data, S_keyring_account, YStr(S_email)))
        email == GetEmailFromKeyring(keyring, keyring_account)
        raw_attributes == YGet(data, S_attributes)
        report_template == YGet(data, S_report_template)
    IN
    IF NotEmail(email)
    THEN Raised("ValueError", "email_not_found", keyring_account, <<>>, <<>>, path)
    ELSE IF raw_attributes.t = "null"
    THEN Raised("ValueError", "attributes_missing", <<>>, <<>>, <<>>, path)
    ELSE IF ValidateAttributes(raw_attributes).error # "none"
    THEN LET v == ValidateAttributes(raw_attributes)
         IN  Raised("ValueError", v.error, v.key, v.valkey, <<>>, path)
    ELSE IF report_template.t = "null"
    THEN Raised("ValueError", "template_missing", <<>>, <<>>, <<>>, path)
    ELSE IF report_template.t # "str"
    THEN Raised("ValueError", "template_not_str", <<>>, <<>>, <<>>, path)
    ELSE Returned(path,
            [report_url |-> report_url,
             email |-> email.v,
             attributes |-> NormalizeAttributes(raw_attributes),
             report_template |-> report_template.s,
             attribute_phrases |-> NormalizePhrases(data),
             advice_for_reporters |-> NormalizeAdvice(data),
             loaded_from |-> path,
             keyring_service |-> SERVICE_NAME,
             keyring_account |-> keyring_account])

\* The candidates that exist, in search order.
Existing(paths, fs) == SelectSeq(paths, LAMBDA p : fs[p].exists)

\* load_config(config_path)
LoadConfig(config_path, fs, keyring) ==
    LET paths == ConfigPaths(config_path)
        found == Existing(paths, fs)
    IN  IF found # <<>>
        THEN LoadFrom(found[1], fs[found[1]], keyring)
        ELSE Raised("FileNotFoundError", "config_not_found", <<>>, <<>>,
                    paths, NoPath)

(***************************************************************************)
(* config.py: load_check_config                                            *)
(***************************************************************************)

S_check_sites == << "c", "h", "e", "c", "k", "_", "s", "i", "t", "e", "s" >>
S_name == << "n", "a", "m", "e" >>
S_url == << "u", "r", "l" >>

CheckOverridePath == "/override/pothole-checking.yaml"
ProjectCheckPath == "<project_root>/conf/pothole-checking.yaml"
HomeCheckPath == "~/.config/pothole-report/pothole-checking.yaml"

\* _check_config_paths(override)
CheckConfigPaths(override) ==
    IF override # NoPath THEN << override >> ELSE << ProjectCheckPath, HomeCheckPath >>

\* A value or the exception raised in computing it.
Ok(x) == [raised |-> "none", v |-> x]
Raise(e) == [raised |-> e, v |-> <<>>]

\* isinstance(x, str) and x.strip()
NonBlankStr(n) == n.t = "str" /\ Strip(n.s) # <<>>

CheckSite(name, url) == [name |-> name, url |-> url]

\* The loop over raw_sites from entry idx on: the sites, or the first error
RECURSIVE CheckSitesFrom(_, _, _)
CheckSitesFrom(raw_sites, idx, sites) ==
    IF idx > Len(raw_sites.kv) THEN Ok(sites)
    ELSE LET entry == raw_sites.kv[idx][2]
             name == YGet(entry, S_name)
             url == YGet(entry, S_url)
         IN  IF entry.t # "map" THEN Raise("entry_not_mapping")
             ELSE IF ~NonBlankStr(name) THEN Raise("name_invalid")
             ELSE IF ~NonBlankStr(url) THEN Raise("url_invalid")
             ELSE CheckSitesFrom(raw_sites, idx + 1,
                                 Append(sites, CheckSite(Strip(name.s), Strip(url.s))))

\* The loop body that takes an empty file for an empty mapping
LoadCheckFromEmptyAsMapping(path, file) ==
    IF ~file.wellformed
    THEN Raised("ValueError", "invalid_yaml", <<>>, <<>>, <<>>, path)
    ELSE IF Truthy(file.doc) /\ file.doc.t # "map"
    THEN Raised("ValueError", "not_mapping", <<>>, <<>>, <<>>, path)
    ELSE LET raw_sites == IF Truthy(file.doc) THEN YGet(file.doc, S_check_sites) ELSE YNull
         IN  IF raw_sites.t = "null" \/ (raw_sites.t = "list" /\ raw_sites.kv = <<>>)
             THEN Returned(path, <<>>)
             ELSE IF raw_sites.t # "list"
             THEN Raised("ValueError", "sites_not_list", <<>>, <<>>, <<>>, path)
             ELSE LET sites == CheckSitesFrom(raw_sites, 1, <<>>)
                  IN  IF sites.raised # "none"
                      THEN Raised("ValueError", sites.raised, <<>>, <<>>, <<>>, path)
                      ELSE Returned(path, sites.v)

\* The body of load_check_config's loop for the first existing path
LoadCheckFrom(path, file) ==
    IF ~file.wellformed
    THEN Raised("ValueError", "invalid_yaml", <<>>, <<>>, <<>>, path)
    ELSE IF file.doc.t # "map"
    THEN Raised("ValueError", "not_mapping", <<>>, <<>>, <<>>, path)
    ELSE LET raw_sites == YGet(file.doc, S_check_sites)
         IN  IF raw_sites.t = "null" \/ (raw_sites.t = "list" /\ raw_sites.kv = <<>>)
             THEN Returned(path, <<>>)
             ELSE IF raw_sites.t # "list"
             THEN Raised("ValueError", "sites_not_list", <<>>, <<>>, <<>>, path)
             ELSE LET sites == CheckSitesFrom(raw_sites, 1, <<>>)
                  IN  IF sites.raised # "none"
                      THEN Raised("ValueError", sites.raised, <<>>, <<>>, <<>>, path)
                      ELSE Returned(path, sites.v)

\* load_check_config(config_path)
LoadCheckConfig(config_path, fs) ==
    LET found == Existing(CheckConfigPaths(config_path), fs)
    IN  IF found # <<>> THEN LoadCheckFrom(found[1], fs[found[1]])
        ELSE Returned(NoPath, <<>>)

(***************************************************************************)
(* cli.py: _generate_report_text                                           *)
(***************************************************************************)

\* _parse_value(value)
ParseValue(value) ==
    IF HasChar(value, ",") THEN StripNonEmpty(Split(value, ","))
    ELSE IF value # <<>> THEN << value >>
    ELSE <<>>

\* `key in attributes and attributes[key]`
Selected(attributes, key) ==
    HasKey(attributes, key) /\ Lookup(attributes, key) # <<>>

\* The categories the severity key is built from, in priority order.
SeverityCategories == << S_depth, S_edge, S_location >>

\* The categories that have a {<category>_description} placeholder.
PhraseCategories ==
    << S_depth, S_edge, S_width, S_location, S_visibility, S_surface >>

\* The categories that take several comma-separated values.
MultiSelect == { S_location, S_visibility }

\* severity_key_parts after the loop over depth, edge, location
RECURSIVE SeverityKeyParts(_, _)
SeverityKeyParts(attributes, keys) ==
    IF keys = <<>> THEN <<>>
    ELSE LET key == Head(keys)
             loc_values == IF Selected(attributes, key)
                           THEN ParseValue(Lookup(attributes, key))
                           ELSE <<>>
         IN  (IF loc_values # <<>> THEN << loc_values[1] >> ELSE <<>>)
             \o SeverityKeyParts(attributes, Tail(keys))

\* The severity lookup; phrases["severity"].get fails on a str entry.
Severity(attributes, phrases) ==
    LET severity_key_parts == SeverityKeyParts(attributes, SeverityCategories)
        severity_key == Join(severity_key_parts, << "_" >>)
    IN  IF severity_key_parts = <<>> THEN Ok(S_MEDIUM_RISK)
        ELSE IF ~HasKey(phrases, S_severity) THEN Ok(S_MEDIUM_RISK)
        ELSE LET table == Lookup(phrases, S_severity)
             IN  IF table.t # "map" THEN Raise("AttributeError")
                 ELSE IF HasKey(table.kv, severity_key)
                 THEN Ok(Lookup(table.kv, severity_key))
                 ELSE Ok(S_MEDIUM_RISK)

\* `val in phrases[phrase_key]`: a key of a dict, a substring of a str
InPhrases(entry, val) ==
    IF entry.t = "map" THEN HasKey(entry.kv, val) ELSE IsSubstring(val, entry.s)

\* The phrase of one selected value: attribute_phrases, then attributes,
\* then the value itself; indexing a str entry by a str fails.
ResolvePhrase(attr_name, val, phrases, attrs) ==
    LET phrase_key == attr_name \o S_description_suffix
    IN  IF HasKey(phrases, phrase_key) /\ InPhrases(Lookup(phrases, phrase_key), val)
        THEN LET entry == Lookup(phrases, phrase_key)
             IN  IF entry.t = "map" THEN Ok(Lookup(entry.kv, val))
                 ELSE Raise("TypeError")
        ELSE IF HasKey(attrs, attr_name) /\ HasKey(Lookup(attrs, attr_name), val)
        THEN Ok(Lookup(Lookup(attrs, attr_name), val))
        ELSE Ok(val)

\* descriptions, for the values of a multi-select category
RECURSIVE Descriptions(_, _, _, _)
Descriptions(attr_name, values, phrases, attrs) ==
    IF values = <<>> THEN Ok(<<>>)
    ELSE LET first == ResolvePhrase(attr_name, Head(values), phrases, attrs)
             rest == Descriptions(attr_name, Tail(values), phrases, attrs)
         IN  IF first.raised # "none" THEN Raise(first.raised)
             ELSE IF rest.raised # "none" THEN Raise(rest.raised)
             ELSE Ok(<< first.v >> \o rest.v)

S_and == << " ", "a", "n", "d", " " >>

\* replacements[phrase_key] for one selected category
CategoryPhrase(attr_name, attr_value, phrases, attrs) ==
    IF attr_name \in MultiSelect
    THEN LET descriptions ==
                 Descriptions(attr_name, ParseValue(attr_value), phrases, attrs)
         IN  IF descriptions.raised # "none" THEN Raise(descriptions.raised)
             ELSE Ok(Join(descriptions.v, S_and))
    ELSE ResolvePhrase(attr_name, attr_value, phrases, attrs)

\* The replacements dict after the loop over the six categories, given the
\* entries made so far.
RECURSIVE Replacements(_, _, _, _, _)
Replacements(sofar, names, attributes, phrases, attrs) ==
    IF names = <<>> THEN Ok(sofar)
    ELSE LET attr_name == Head(names)
         IN  IF ~Selected(attributes, attr_name)
             THEN Replacements(sofar, Tail(names), attributes, phrases, attrs)
             ELSE LET phrase == CategoryPhrase(attr_name, Lookup(attributes, attr_name),
                                               phrases, attrs)
                  IN  IF phrase.raised # "none" THEN Raise(phrase.raised)
                      ELSE Replacements(
                               Put(sofar, attr_name \o S_description_suffix, phrase.v),
                               Tail(names), attributes, phrases, attrs)

\* str.replace(old, new), old not empty
RECURSIVE Replace(_, _, _)
Replace(s, old, new) ==
    LET at == { i \in 1..(Len(s) - Len(old) + 1) : SubSeq(s, i, i + Len(old) - 1) = old }
    IN  IF at = {} THEN s
        ELSE SubSeq(s, 1, Min(at) - 1) \o new
                 \o Replace(SubSeq(s, Min(at) + Len(old), Len(s)), old, new)

\* result.replace("{placeholder}", value) for each replacement in turn
RECURSIVE FillTemplate(_, _)
FillTemplate(result, replacements) ==
    IF replacements = <<>> THEN result
    ELSE FillTemplate(
             Replace(result, << "{" >> \o replacements[1][1] \o << "}" >>,
                     replacements[1][2]),
             Tail(replacements))

\* The placeholders are left where they are
KeepPlaceholders(s) == s

\* re.sub(r"\{[^}]+\}", "", s)
RECURSIVE RemovePlaceholders(_)
RemovePlaceholders(s) ==
    LET closing(i) == { j \in (i + 1)..Len(s) : s[j] = "}" }
        at == { i \in DOMAIN s :
                  s[i] = "{" /\ closing(i) # {} /\ Min(closing(i)) > i + 1 }
    IN  IF at = {} THEN s
        ELSE SubSeq(s, 1, Min(at) - 1)
                 \o RemovePlaceholders(SubSeq(s, Min(closing(Min(at))) + 1, Len(s)))

\* re.sub(r"\s+", " ", s)
RECURSIVE CollapseWhitespace(_)
CollapseWhitespace(s) ==
    LET at == { i \in DOMAIN s : s[i] \in Whitespace }
    IN  IF at = {} THEN s
        ELSE SubSeq(s, 1, Min(at) - 1) \o << " " >>
                 \o CollapseWhitespace(LStrip(SubSeq(s, Min(at), Len(s))))

\* _generate_report_text(attributes, config)
GenerateReportText(attributes, config) ==
    LET template == config.report_template
        phrases == config.attribute_phrases
        attrs == config.attributes
        severity == Severity(attributes, phrases)
    IN  IF severity.raised # "none" THEN Raise(severity.raised)
        ELSE LET replacements ==
                     Replacements(<< << S_severity, severity.v >> >>, PhraseCategories,
                                  attributes, phrases, attrs)
             IN  IF replacements.raised # "none" THEN Raise(replacements.raised)
                 ELSE Ok(Strip(CollapseWhitespace(RemovePlaceholders(
                             FillTemplate(template, replacements.v)))))

(***************************************************************************)
(* scan.py: scan_folder                                                    *)
(***************************************************************************)

UpperChars == << "A", "B", "C", "D", "E", "G", "H", "I", "J", "K", "M", "N", "P", "R", "S", "T", "U", "W", "X", "Z" >>
LowerChars == << "a", "b", "c", "d", "e", "g", "h", "i", "j", "k", "m", "n", "p", "r", "s", "t", "u", "w", "x", "z" >>

\* str.lower()
Lower(s) ==
    [i \in DOMAIN s |->
        IF \E k \in DOMAIN UpperChars : UpperChars[k] = s[i]
        THEN LowerChars[CHOOSE k \in DOMAIN UpperChars : UpperChars[k] = s[i]]
        ELSE s[i]]

\* Path.suffix: from the last dot, unless the name starts or ends with it
Suffix(name) ==
    LET dots == { i \in DOMAIN name : name[i] = "." }
    IN  IF dots = {} THEN <<>>
        ELSE LET i == CHOOSE d \in dots : \A e \in dots : e <= d
             IN  IF 1 < i /\ i < Len(name) THEN SubSeq(name, i, Len(name)) ELSE <<>>

\* EXTENSIONS_LOWER
EXTENSIONS_LOWER ==
    { << ".", "j", "p", "g" >>, << ".", "j", "p", "e", "g" >>, << ".", "p", "n", "g" >> }

\* Python's tuple < tuple, for tuples of strings
RECURSIVE KeyLess(_, _)
KeyLess(k1, k2) ==
    IF k2 = <<>> THEN FALSE
    ELSE IF k1 = <<>> THEN TRUE
    ELSE IF Head(k1) # Head(k2) THEN StrLess(Head(k1), Head(k2))
    ELSE KeyLess(Tail(k1), Tail(k2))

\* sorted(seq, key=...) and list.sort(key=...): a stable insertion sort of
\* the <<key, item>> pairs by their keys.
RECURSIVE InsertSorted(_, _)
InsertSorted(sorted, x) ==
    IF sorted = <<>> THEN << x >>
    ELSE IF KeyLess(x[1], Head(sorted)[1]) THEN << x >> \o sorted
    ELSE << Head(sorted) >> \o InsertSorted(Tail(sorted), x)

RECURSIVE SortedFrom(_, _)
SortedFrom(done, rest) ==
    IF rest = <<>> THEN done
    ELSE SortedFrom(InsertSorted(done, Head(rest)), Tail(rest))

SortedByKey(keyed) ==
    LET sorted == SortedFrom(<<>>, keyed) IN [i \in DOMAIN sorted |-> sorted[i][2]]

\* key=lambda x: x.name
NameKey(p) == << p.name >>

\* The entries kept when the extension is compared as it is written
EligibleAsWritten(p) == p.is_file /\ Suffix(p.name) \in EXTENSIONS_LOWER

\* The entries scan_folder keeps
Eligible(p) == p.is_file /\ Lower(Suffix(p.name)) \in EXTENSIONS_LOWER

\* Whatever the argument is, its listing is scanned
ScanFolderAnyPath(folder) ==
    LET paths == SelectSeq(folder.listing, Eligible)
    IN  Ok(SortedByKey([i \in DOMAIN paths |-> << NameKey(paths[i]), paths[i] >>]))

\* scan_folder without the sort: the paths in the order of the listing
ScanFolderUnsorted(folder) ==
    IF ~folder.is_dir THEN Raise("NotADirectoryError")
    ELSE Ok(SelectSeq(folder.listing, Eligible))

\* scan_folder(folder): the paths, or NotADirectoryError
ScanFolder(folder) ==
    IF ~folder.is_dir THEN Raise("NotADirectoryError")
    ELSE LET paths == SelectSeq(folder.listing, Eligible)
         IN  Ok(SortedByKey([i \in DOMAIN paths |-> << NameKey(paths[i]), paths[i] >>]))

(***************************************************************************)
(* extract.py                                                              *)
(***************************************************************************)

\* Decimal degrees are counted in units of 1/7200 degree, which is exact for
\* the rationals of the model (denominators 0, 1 and 2).
UnitsPerDegree == 2 * 3600

\* _to_float(v) for a rational (numerator, denominator), in `units` per one
ToFloat(v, units) == IF v[2] # 0 THEN (v[1] * units) \div v[2] ELSE 0

\* A float of the program that holds degrees: its sign and its magnitude in
\* units (0.0 and -0.0 are two floats)
Float(neg, units) == [neg |-> neg, units |-> units]
Zero == Float(FALSE, 0)

\* -x
Negate(x) == Float(~x.neg, x.units)

\* _dms_to_decimal that negates for the south only
DmsToDecimalSouthOnly(dms, ref) ==
    LET decimal == Float(FALSE, dms[1] + dms[2] + dms[3])
    IN  IF ref = << "S" >> THEN Negate(decimal) ELSE decimal

\* _dms_to_decimal(dms, ref), dms already in units
DmsToDecimal(dms, ref) ==
    LET decimal == Float(FALSE, dms[1] + dms[2] + dms[3])
    IN  IF ref \in { << "S" >>, << "W" >> } THEN Negate(decimal) ELSE decimal

Dms(data) ==
    << ToFloat(data[1], UnitsPerDegree),
       ToFloat(data[2], UnitsPerDegree \div 60),
       ToFloat(data[3], UnitsPerDegree \div 3600) >>

\* No coordinates / coordinates
NoCoords == [some |-> FALSE, lat |-> Zero, lon |-> Zero]
Coords(lat, lon) == [some |-> TRUE, lat |-> lat, lon |-> lon]

\* extract(path) without the check of the component counts: a short array
\* is indexed past its end
ExtractUnchecked(img) ==
    IF ~img.opens THEN Raise("UnidentifiedImageError")
    ELSE IF ~img.has_exif THEN Ok(NoCoords)
    ELSE LET gps == img.gps
         IN  IF gps.lat_data = <<>> \/ gps.lat_ref = <<>>
                \/ gps.lon_data = <<>> \/ gps.lon_ref = <<>>
             THEN Ok(NoCoords)
             ELSE IF Len(gps.lat_data) < 3 \/ Len(gps.lon_data) < 3
             THEN Raise("IndexError")
             ELSE Ok(Coords(DmsToDecimal(Dms(gps.lat_data), gps.lat_ref),
                            DmsToDecimal(Dms(gps.lon_data), gps.lon_ref)))

\* extract(path): (lat, lon), None, or the exception of Image.open
Extract(img) ==
    IF ~img.opens THEN Raise("UnidentifiedImageError")
    ELSE IF ~img.has_exif THEN Ok(NoCoords)
    ELSE LET gps == img.gps
         IN  IF gps.lat_data = <<>> /\ gps.lat_ref = <<>>
                /\ gps.lon_data = <<>> /\ gps.lon_ref = <<>>
             THEN Ok(NoCoords)
             ELSE IF gps.lat_data = <<>> \/ gps.lat_ref = <<>>
                     \/ gps.lon_data = <<>> \/ gps.lon_ref = <<>>
             THEN Ok(NoCoords)
             ELSE IF Len(gps.lat_data) # 3 \/ Len(gps.lon_data) # 3
             THEN Ok(NoCoords)
             ELSE Ok(Coords(DmsToDecimal(Dms(gps.lat_data), gps.lat_ref),
                            DmsToDecimal(Dms(gps.lon_data), gps.lon_ref)))

Digits == << "0", "1", "2", "3", "4", "5", "6", "7", "8", "9" >>

IsDigit(c) == \E i \in DOMAIN Digits : Digits[i] = c

DigitValue(c) == (CHOOSE i \in DOMAIN Digits : Digits[i] = c) - 1

\* int(s) for a string of digits
RECURSIVE Number(_)
Number(s) ==
    IF s = <<>> THEN 0 ELSE Number(SubSeq(s, 1, Len(s) - 1)) * 10 + DigitValue(s[Len(s)])

\* str(n) for a natural number
RECURSIVE NatStr(_)
NatStr(n) ==
    IF n < 10 THEN << Digits[n + 1] >> ELSE NatStr(n \div 10) \o << Digits[(n % 10) + 1] >>

\* "%02d" % n and "%04d" % n
Pad2(n) == << Digits[((n \div 10) % 10) + 1], Digits[(n % 10) + 1] >>
Pad4(n) == Pad2(n \div 100) \o Pad2(n % 100)

IsLeap(y) == (y % 4 = 0 /\ y % 100 # 0) \/ y % 400 = 0

DaysInMonth(y, m) ==
    IF m = 2 THEN (IF IsLeap(y) THEN 29 ELSE 28)
    ELSE IF m \in {4, 6, 9, 11} THEN 30 ELSE 31

\* The C library under the build: strftime("%Y") writes a year below 1000
\* with four digits on some and without leading zeros on others
VARIABLE platform

PadsYear == [pads_year |-> TRUE]
BareYear == [pads_year |-> FALSE]
Platforms == { PadsYear, BareYear }

AllDigits(s) == s # <<>> /\ \A i \in DOMAIN s : IsDigit(s[i])

\* One or two digits with a value from `least` to `most`: what the patterns
\* of %m, %H, %M and %S accept
Numeral(s, least, most) ==
    AllDigits(s) /\ Len(s) <= 2 /\ Number(s) >= least /\ Number(s) <= most

\* The pattern of %d also accepts a space and one digit other than 0
DayNumeral(s) ==
    \/ Numeral(s, 1, 31)
    \/ Len(s) = 2 /\ s[1] = " " /\ IsDigit(s[2]) /\ s[2] # "0"

DayValue(s) == IF s[1] = " " THEN Number(Tail(s)) ELSE Number(s)

\* The ways to read `mid` as a day, a run of whitespace and an hour
DayHourSplits(mid) ==
    { << dl, wl >> \in (1..2) \X (1..Len(mid)) :
        /\ dl + wl < Len(mid)
        /\ DayNumeral(SubSeq(mid, 1, dl))
        /\ \A i \in (dl + 1)..(dl + wl) : mid[i] \in Whitespace
        /\ Numeral(SubSeq(mid, dl + wl + 1, Len(mid)), 0, 23) }

\* strftime("%Y")
YearText(y) == IF platform.pads_year THEN Pad4(y) ELSE NatStr(y)

\* _parse_exif_datetime(value): "YYYY-MM-DD HH:MM", or None
ParseExifDatetime(value) ==
    IF ~Truthy(value) \/ value.t # "str" THEN None
    ELSE LET stripped == Strip(value.s)
             s == SubSeq(stripped, 1, IF Len(stripped) < 19 THEN Len(stripped) ELSE 19)
             parts == Split(s, ":")
         IN  IF Len(parts) # 5 THEN None
             ELSE IF ~(AllDigits(parts[1]) /\ Len(parts[1]) = 4) THEN None
             ELSE IF ~Numeral(parts[2], 1, 12) THEN None
             ELSE IF DayHourSplits(parts[3]) = {} THEN None
             ELSE IF ~Numeral(parts[4], 0, 59) \/ ~Numeral(parts[5], 0, 61) THEN None
             ELSE LET split == CHOOSE sp \in DayHourSplits(parts[3]) : TRUE
                      y == Number(parts[1])
                      m == Number(parts[2])
                      d == DayValue(SubSeq(parts[3], 1, split[1]))
                      H == Number(SubSeq(parts[3], split[1] + split[2] + 1, Len(parts[3])))
                      M == Number(parts[4])
                      S == Number(parts[5])
                  IN  IF y >= 1 /\ d <= DaysInMonth(y, m) /\ S <= 59
                      THEN Some(YearText(y) \o << "-" >> \o Pad2(m) \o << "-" >> \o Pad2(d)
                                \o << " " >> \o Pad2(H) \o << ":" >> \o Pad2(M))
                      ELSE None

\* extract_datetime(path)
ExtractDatetime(img) ==
    IF ~img.opens THEN Raise("UnidentifiedImageError")
    ELSE IF ~img.has_exif THEN Ok(None)
    ELSE Ok(ParseExifDatetime(IF Truthy(img.dto) THEN img.dto ELSE img.dt))

\* ExtractedData
ExtractedData(path, lat, lon, datetime_taken) ==
    [path |-> path, lat |-> lat, lon |-> lon, datetime_taken |-> datetime_taken]

\* What extract_all ends with: "raised", "none" (no GPS) or "data"
ExtractAll(p) ==
    LET coords == Extract(p.img)
        dt == ExtractDatetime(p.img)
    IN  IF coords.raised # "none" THEN [kind |-> "raised", data |-> <<>>]
        ELSE IF ~coords.v.some THEN [kind |-> "none", data |-> <<>>]
        ELSE IF dt.raised # "none" THEN [kind |-> "raised", data |-> <<>>]
        ELSE [kind |-> "data",
              data |-> ExtractedData(p.name, coords.v.lat, coords.v.lon, dt.v)]

(***************************************************************************)
(* geocode.py: reverse_geocode                                             *)
(***************************************************************************)

S_address == << "a", "d", "d", "r", "e", "s", "s" >>
S_postcode == << "p", "o", "s", "t", "c", "o", "d", "e" >>

NoGeocode == [some |-> FALSE, postcode |-> <<>>, address |-> <<>>]
GeocodedResult(postcode, address) ==
    [some |-> TRUE, postcode |-> postcode, address |-> address]

\* The postcode is taken as the provider wrote it
ReverseGeocodeUntrimmed(provider) ==
    IF provider.raises \/ ~provider.found THEN NoGeocode
    ELSE IF Truthy(provider.raw) /\ provider.raw.t # "map" THEN NoGeocode
    ELSE LET got == IF Truthy(provider.raw) THEN YGet(provider.raw, S_address)
                    ELSE YMap(<<>>)
             raw == IF got.t = "map" THEN got ELSE YMap(<<>>)
             found == YGet(raw, S_postcode)
         IN  IF found.t = "str" /\ found.s # <<>>
             THEN GeocodedResult(found.s, provider.address)
             ELSE NoGeocode

\* reverse_geocode(lat, lon), given what geolocator.reverse answers
ReverseGeocode(provider) ==
    IF provider.raises THEN NoGeocode
    ELSE IF ~provider.found THEN NoGeocode
    ELSE IF Truthy(provider.raw) /\ provider.raw.t # "map" THEN NoGeocode
    ELSE LET got == IF Truthy(provider.raw) THEN YGet(provider.raw, S_address)
                    ELSE YMap(<<>>)
             raw == IF got.t = "map" THEN got ELSE YMap(<<>>)
             found == YGet(raw, S_postcode)
             postcode == IF found.t = "str" THEN Strip(found.s) ELSE <<>>
         IN  IF postcode = <<>> THEN NoGeocode
             ELSE GeocodedResult(postcode, provider.address)

(***************************************************************************)
(* output.py: build_report_record                                          *)
(***************************************************************************)

\* The trailing slashes stay
KeepSlashes(s) == s

\* str.rstrip("/")
RECURSIVE RStripSlash(_)
RStripSlash(s) ==
    IF s # <<>> /\ s[Len(s)] = "/" THEN RStripSlash(SubSeq(s, 1, Len(s) - 1)) ELSE s

MicroPerDegree == 10 ^ 6

RECURSIVE Gcd(_, _)
Gcd(a, b) == IF b = 0 THEN a ELSE Gcd(b, a % b)

\* A unit is MicroNum / MicroDen millionths of a degree
MicroNum == MicroPerDegree \div Gcd(MicroPerDegree, UnitsPerDegree)
MicroDen == UnitsPerDegree \div Gcd(MicroPerDegree, UnitsPerDegree)

\* round(x, 6): the sign and the number of millionths of a degree nearest to
\* x (a magnitude in units is never halfway between two of them)
Round6(x) ==
    LET scaled == x.units * MicroNum
    IN  [neg |-> x.neg,
         micro |-> (scaled \div MicroDen)
                      + (IF 2 * (scaled % MicroDen) > MicroDen THEN 1 ELSE 0)]

\* The digits of a fraction without its trailing zeros; "0" when it has none
RECURSIVE DropZeros(_)
DropZeros(digits) ==
    IF Len(digits) > 1 /\ digits[Len(digits)] = "0"
    THEN DropZeros(SubSeq(digits, 1, Len(digits) - 1))
    ELSE digits

\* str(f) for a float f = round(x, 6): the shortest decimal that reads back
\* as f, with at least one digit after the point
StrFloat(r) ==
    LET whole == r.micro \div MicroPerDegree
        frac == r.micro % MicroPerDegree
        six == Pad2(frac \div 10000) \o Pad2((frac \div 100) % 100) \o Pad2(frac % 100)
    IN  (IF r.neg THEN << "-" >> ELSE <<>>) \o NatStr(whole) \o << "." >> \o DropZeros(six)

S_around == << "/", "a", "r", "o", "u", "n", "d", "?", "l", "a", "t", "=" >>
S_lon == << "&", "l", "o", "n", "=" >>
S_zoom == << "&", "z", "o", "o", "m", "=", "4" >>
S_maps == << "h", "t", "t", "p", "s", ":", "/", "/", "w", "w", "w", ".", "g", "o", "o", "g", "l", "e", ".", "c", "o", "m", "/", "m", "a", "p", "s", "?", "q", "=" >>

\* build_report_record(...)
BuildReportRecord(extracted, geocoded, report_url, email, attributes, attribute_descriptions, generated_report_text, image_names) ==
    [path |-> extracted.path,
     datetime_taken |-> extracted.datetime_taken,
     postcode |-> geocoded.postcode,
     address |-> geocoded.address,
     lat |-> extracted.lat,
     lon |-> extracted.lon,
     fill_that_hole_url |->
         RStripSlash(report_url) \o S_around \o StrFloat(Round6(extracted.lat))
             \o S_lon \o StrFloat(Round6(extracted.lon)) \o S_zoom,
     google_maps_url |->
         S_maps \o StrFloat(Round6(extracted.lat)) \o << "," >>
             \o StrFloat(Round6(extracted.lon)),
     attributes |-> attributes,
     attribute_descriptions |-> attribute_descriptions,
     generated_report_text |-> generated_report_text,
     email |-> email,
     image_names |-> image_names]

(***************************************************************************)
(* cli.py: main                                                            *)
(***************************************************************************)

VARIABLES
    args,               \* the parsed command line
    fs,                 \* the config files: path -> [exists, wellformed, doc]
    keyring,            \* the credential store's entries under SERVICE_NAME
    stdin,              \* the line typed at the prompt of `setup`
    folder,             \* the target folder: [is_dir, listing]
    provider,           \* what the geocoding provider answers
    pc,                 \* the position in main
    load_result,        \* what load_config ended with
    config,
    paths,
    attributes,
    severity,           \* the local `severity` of _generate_report_text
    generated_report_text,
    idx,                \* the index of the next path of the extraction loop
    extracted_list,
    skipped_no_gps,
    skipped_unreadable,
    earliest,
    geocoded,
    record,
    exit_status,        \* the status of the process once pc = "exit"
    console,            \* the messages printed, by kind
    extract_calls,      \* the names extract_all was called with, in order
    geocode_calls       \* the (lat, lon, idx) of every reverse_geocode call

inputs == << args, fs, keyring, stdin, folder, provider, platform >>

locals ==
    << load_result, config, paths, attributes, severity, generated_report_text,
       idx, extracted_list, skipped_no_gps, skipped_unreadable, earliest,
       geocoded, record, console, extract_calls, geocode_calls >>

vars == << inputs, pc, exit_status, locals >>

NoData == ExtractedData(<<>>, Zero, Zero, None)

NoRecord ==
    BuildReportRecord(NoData, NoGeocode, <<>>, <<>>, <<>>, <<>>, <<>>, <<>>)

NoResult == Raised("none", "none", <<>>, <<>>, <<>>, NoPath)

\* The values of the locals before main assigns them.
Unassigned ==
    /\ load_result = NoResult
    /\ config = NoConfig
    /\ paths = <<>>
    /\ attributes = <<>>
    /\ severity = <<>>
    /\ generated_report_text = <<>>
    /\ idx = 1
    /\ extracted_list = <<>>
    /\ skipped_no_gps = 0
    /\ skipped_unreadable = 0
    /\ earliest = NoData
    /\ geocoded = NoGeocode
    /\ record = NoRecord
    /\ console = <<>>
    /\ extract_calls = <<>>
    /\ geocode_calls = <<>>

\* raise SystemExit(status), parser.error, or an exception nothing catches
Exit(status, message) ==
    /\ pc' = "exit"
    /\ exit_status' = status
    /\ console' = Append(console, message)

\* `return` from main
Return(message) == Exit(0, message)

\* main going on to the scan when load_config has failed
MainLoadConfigGoingOn ==
    /\ pc = "load_config"
    /\ LET result == LoadConfig(args.config, fs, keyring)
       IN  /\ load_result' = result
           /\ config' = result.config
           /\ pc' = "scan"
           /\ UNCHANGED << exit_status, console >>
    /\ UNCHANGED << inputs, paths, attributes, severity, generated_report_text, idx,
                    extracted_list, skipped_no_gps, skipped_unreadable, earliest,
                    geocoded, record, extract_calls, geocode_calls >>

\* config = load_config(args.config), and the two except clauses
MainLoadConfig ==
    /\ pc = "load_config"
    /\ LET result == LoadConfig(args.config, fs, keyring)
       IN  /\ load_result' = result
           /\ IF result.kind = "ok"
              THEN /\ config' = result.config
                   /\ pc' = "scan"
                   /\ UNCHANGED << exit_status, console >>
              ELSE /\ IF result.kind \in {"FileNotFoundError", "ValueError"}
                      THEN Exit(1, "Error")
                      ELSE Exit(1, "Traceback")
                   /\ UNCHANGED config
    /\ UNCHANGED << inputs, paths, attributes, severity, generated_report_text, idx,
                    extracted_list, skipped_no_gps, skipped_unreadable, earliest,
                    geocoded, record, extract_calls, geocode_calls >>

\* parser.error when no folder is given; paths = scan_folder(args.folder)
MainScan ==
    /\ pc = "scan"
    /\ IF ~args.folder_given
       THEN Exit(2, "usage") /\ UNCHANGED paths
       ELSE LET scanned == ScanFolder(folder)
            IN  IF scanned.raised # "none"
                THEN Exit(1, "Error") /\ UNCHANGED paths
                ELSE /\ paths' = scanned.v
                     /\ IF scanned.v = <<>>
                        THEN Return("No JPG/PNG files found in folder.")
                        ELSE /\ pc' = "attributes"
                             /\ UNCHANGED << exit_status, console >>
    /\ UNCHANGED << inputs, load_result, config, attributes, severity,
                    generated_report_text, idx, extracted_list, skipped_no_gps,
                    skipped_unreadable, earliest, geocoded, record, extract_calls,
                    geocode_calls >>

\* The value of a flag: "" stands for None as well (both are skipped)
FlagValue(flags, attr_name) ==
    IF HasKey(flags, attr_name) THEN Lookup(flags, attr_name) ELSE <<>>

\* The flags of the defined categories taken as given, without validation.
CollectFlagsLenient(sofar, names, flags, attrs_config) ==
    Ok(sofar \o SelectSeq(flags, LAMBDA f : f[2] # <<>> /\ HasKey(attrs_config, f[1])))

\* The loop over the six flags with every category taking a list
RECURSIVE CollectFlagsAllMulti(_, _, _, _)
CollectFlagsAllMulti(sofar, names, flags, attrs_config) ==
    IF names = <<>> THEN Ok(sofar)
    ELSE LET attr_name == Head(names)
             attr_value == FlagValue(flags, attr_name)
         IN  IF attr_value = <<>> \/ ~HasKey(attrs_config, attr_name)
             THEN CollectFlagsAllMulti(sofar, Tail(names), flags, attrs_config)
             ELSE LET known == Lookup(attrs_config, attr_name)
                      values == StripNonEmpty(Split(attr_value, ","))
                      invalid_values == SelectSeq(values, LAMBDA v : ~HasKey(known, v))
                  IN  IF HasChar(attr_value, ",")
                      THEN IF invalid_values # <<>> THEN Raise("SystemExit")
                           ELSE CollectFlagsAllMulti(Put(sofar, attr_name, attr_value),
                                                     Tail(names), flags, attrs_config)
                      ELSE IF ~HasKey(known, attr_value) THEN Raise("SystemExit")
                           ELSE CollectFlagsAllMulti(Put(sofar, attr_name, attr_value),
                                                     Tail(names), flags, attrs_config)

\* The loop over the six flags: the attributes, or SystemExit
RECURSIVE CollectFlags(_, _, _, _)
CollectFlags(sofar, names, flags, attrs_config) ==
    IF names = <<>> THEN Ok(sofar)
    ELSE LET attr_name == Head(names)
             attr_value == FlagValue(flags, attr_name)
         IN  IF attr_value = <<>> \/ ~HasKey(attrs_config, attr_name)
             THEN CollectFlags(sofar, Tail(names), flags, attrs_config)
             ELSE LET known == Lookup(attrs_config, attr_name)
                      values == StripNonEmpty(Split(attr_value, ","))
                      invalid_values == SelectSeq(values, LAMBDA v : ~HasKey(known, v))
                  IN  IF attr_name \in MultiSelect /\ HasChar(attr_value, ",")
                      THEN IF invalid_values # <<>> THEN Raise("SystemExit")
                           ELSE CollectFlags(Put(sofar, attr_name, attr_value),
                                             Tail(names), flags, attrs_config)
                      ELSE IF ~HasKey(known, attr_value) THEN Raise("SystemExit")
                           ELSE CollectFlags(Put(sofar, attr_name, attr_value),
                                             Tail(names), flags, attrs_config)

\* sorted(attrs_config.keys())
SortedKeys(d) == SortedByKey([i \in DOMAIN d |-> << << d[i][1] >>, d[i][1] >>])

\* The choices the user makes in interactive mode, as the accepted answer per
\* category: no entry (Enter), one index, or for a multi-select category
\* several indices; every index is one of the choices listed.
AcceptedAnswer(attrs_config, attr_name, indices) ==
    /\ HasKey(attrs_config, attr_name)
    /\ indices # <<>>
    /\ \A i \in DOMAIN indices : indices[i] \in 1..Len(Lookup(attrs_config, attr_name))
    /\ Len(indices) > 1 => attr_name \in MultiSelect

\* _run_interactive_mode(config, console), given the accepted answers
RECURSIVE InteractiveFrom(_, _, _, _)
InteractiveFrom(sofar, names, answers, attrs_config) ==
    IF names = <<>> THEN sofar
    ELSE LET attr_name == Head(names)
             choices == Keys(Lookup(attrs_config, attr_name))
         IN  IF ~HasKey(answers, attr_name)
             THEN InteractiveFrom(sofar, Tail(names), answers, attrs_config)
             ELSE LET indices == Lookup(answers, attr_name)
                      selected_keys == [i \in DOMAIN indices |-> choices[indices[i]]]
                  IN  InteractiveFrom(Put(sofar, attr_name, Join(selected_keys, << "," >>)),
                                      Tail(names), answers, attrs_config)

RunInteractiveMode(attrs_config, answers) ==
    InteractiveFrom(<<>>, SortedKeys(attrs_config), answers, attrs_config)

\* The most categories the user answers in one interactive session, and the
\* most indices typed in one answer.
MaxAnswered == 1
MaxIndices == 2

IndexSeqs(n) == UNION { [1..k -> 1..n] : k \in 1..MaxIndices }

\* The sessions of interactive mode the model tries: the accepted answers.
Answers(attrs_config) ==
    LET names == { attrs_config[i][1] : i \in DOMAIN attrs_config }
        choice(name) ==
            { ind \in IndexSeqs(Len(Lookup(attrs_config, name))) :
                AcceptedAnswer(attrs_config, name, ind) }
        answered == { S \in SUBSET names : Cardinality(S) <= MaxAnswered }
        asDict(S, f) ==
            LET keys == SelectSeq(Keys(attrs_config), LAMBDA k : k \in S)
            IN  [i \in DOMAIN keys |-> << keys[i], f[keys[i]] >>]
        anyChoice == UNION { choice(n) : n \in names }
    IN  UNION { { asDict(S, f) : f \in { g \in [S -> anyChoice] :
                                            \A n \in S : g[n] \in choice(n) } } :
                S \in answered }

\* The attributes step without `if not attributes`
MainAttributesUnchecked ==
    /\ pc = "attributes"
    /\ \E answers \in (IF args.interactive THEN Answers(config.attributes) ELSE { <<>> }) :
         LET collected ==
                 IF args.interactive
                 THEN Ok(RunInteractiveMode(config.attributes, answers))
                 ELSE CollectFlags(<<>>, PhraseCategories, args.flags, config.attributes)
         IN  IF collected.raised # "none"
             THEN Exit(1, "Error") /\ UNCHANGED attributes
             ELSE /\ attributes' = collected.v
                  /\ pc' = "generate"
                  /\ UNCHANGED << exit_status, console >>
    /\ UNCHANGED << inputs, load_result, config, paths, severity, generated_report_text,
                    idx, extracted_list, skipped_no_gps, skipped_unreadable, earliest,
                    geocoded, record, extract_calls, geocode_calls >>

\* attributes, from interactive mode or from the flags; `if not attributes`
MainAttributes ==
    /\ pc = "attributes"
    /\ \E answers \in (IF args.interactive THEN Answers(config.attributes) ELSE { <<>> }) :
         LET collected ==
                 IF args.interactive
                 THEN Ok(RunInteractiveMode(config.attributes, answers))
                 ELSE CollectFlags(<<>>, PhraseCategories, args.flags, config.attributes)
         IN  IF collected.raised # "none"
             THEN Exit(1, "Error") /\ UNCHANGED attributes
             ELSE /\ attributes' = collected.v
                  /\ IF collected.v = <<>>
                     THEN Exit(1, "No attributes specified.")
                     ELSE /\ pc' = "generate"
                          /\ UNCHANGED << exit_status, console >>
    /\ UNCHANGED << inputs, load_result, config, paths, severity, generated_report_text,
                    idx, extracted_list, skipped_no_gps, skipped_unreadable, earliest,
                    geocoded, record, extract_calls, geocode_calls >>

\* generated_report_text = _generate_report_text(attributes, config)
MainGenerate ==
    /\ pc = "generate"
    /\ LET text == GenerateReportText(attributes, config)
           sev == Severity(attributes, config.attribute_phrases)
       IN  IF text.raised # "none"
           THEN Exit(1, "Traceback") /\ UNCHANGED << severity, generated_report_text >>
           ELSE /\ generated_report_text' = text.v
                /\ severity' = sev.v
                /\ pc' = "extract"
                /\ UNCHANGED << exit_status, console >>
    /\ UNCHANGED << inputs, load_result, config, paths, attributes, idx, extracted_list,
                    skipped_no_gps, skipped_unreadable, earliest, geocoded, record,
                    extract_calls, geocode_calls >>

\* A loop turn without the try/except: a failing image ends the run.
MainExtractUncaught ==
    /\ pc = "extract"
    /\ idx <= Len(paths)
    /\ LET path == paths[idx]
           extracted == ExtractAll(path)
       IN  /\ extract_calls' = Append(extract_calls, path.name)
           /\ IF extracted.kind = "raised"
              THEN /\ Exit(1, "Traceback")
                   /\ UNCHANGED << skipped_unreadable, skipped_no_gps, extracted_list >>
              ELSE IF extracted.kind = "none"
              THEN /\ skipped_no_gps' = skipped_no_gps + 1
                   /\ UNCHANGED << skipped_unreadable, extracted_list, pc, exit_status,
                                   console >>
              ELSE /\ extracted_list' = Append(extracted_list, extracted.data)
                   /\ UNCHANGED << skipped_unreadable, skipped_no_gps, pc, exit_status,
                                   console >>
    /\ idx' = idx + 1
    /\ UNCHANGED << inputs, load_result, config, paths, attributes, severity,
                    generated_report_text, earliest, geocoded, record, geocode_calls >>

\* A loop turn that geocodes every image that has a location as it goes.
MainExtractGeocoding ==
    /\ pc = "extract"
    /\ idx <= Len(paths)
    /\ LET path == paths[idx]
           extracted == ExtractAll(path)
       IN  /\ extract_calls' = Append(extract_calls, path.name)
           /\ IF extracted.kind = "raised"
              THEN /\ skipped_unreadable' = skipped_unreadable + 1
                   /\ UNCHANGED << skipped_no_gps, extracted_list, geocode_calls >>
              ELSE IF extracted.kind = "none"
              THEN /\ skipped_no_gps' = skipped_no_gps + 1
                   /\ UNCHANGED << skipped_unreadable, extracted_list, geocode_calls >>
              ELSE /\ extracted_list' = Append(extracted_list, extracted.data)
                   /\ geocode_calls' =
                          Append(geocode_calls,
                                 [lat |-> extracted.data.lat, lon |-> extracted.data.lon,
                                  extracted |-> Len(extract_calls) + 1])
                   /\ UNCHANGED << skipped_unreadable, skipped_no_gps >>
    /\ idx' = idx + 1
    /\ UNCHANGED << inputs, pc, exit_status, load_result, config, paths, attributes,
                    severity, generated_report_text, earliest, geocoded, record,
                    console >>

\* One turn of `for path in paths`
MainExtract ==
    /\ pc = "extract"
    /\ idx <= Len(paths)
    /\ LET path == paths[idx]
           extracted == ExtractAll(path)
       IN  /\ extract_calls' = Append(extract_calls, path.name)
           /\ IF extracted.kind = "raised"
              THEN /\ skipped_unreadable' = skipped_unreadable + 1
                   /\ UNCHANGED << skipped_no_gps, extracted_list >>
              ELSE IF extracted.kind = "none"
              THEN /\ skipped_no_gps' = skipped_no_gps + 1
                   /\ UNCHANGED << skipped_unreadable, extracted_list >>
              ELSE /\ extracted_list' = Append(extracted_list, extracted.data)
                   /\ UNCHANGED << skipped_unreadable, skipped_no_gps >>
    /\ idx' = idx + 1
    /\ UNCHANGED << inputs, pc, exit_status, load_result, config, paths, attributes,
                    severity, generated_report_text, earliest, geocoded, record,
                    console, geocode_calls >>

\* A sort by filename alone: the capture time is ignored.
SortKeyNameOnly(e) == << e.path >>

Sentinel == << "9", "9", "9", "9", "-", "9", "9", "-", "9", "9", " ", "9", "9", ":", "9", "9" >>

\* _sort_key(e)
SortKey(e) ==
    LET dt == IF e.datetime_taken.some /\ e.datetime_taken.v # <<>>
              THEN e.datetime_taken.v
              ELSE Sentinel
    IN  << dt, e.path >>

\* After the loop: `if not extracted_list`, the sort, earliest
MainSelect ==
    /\ pc = "extract"
    /\ idx > Len(paths)
    /\ IF extracted_list = <<>>
       THEN /\ Return("No reports generated (no images with GPS).")
            /\ UNCHANGED << extracted_list, earliest >>
       ELSE LET sorted == SortedByKey([i \in DOMAIN extracted_list |->
                                          << SortKey(extracted_list[i]), extracted_list[i] >>])
            IN  /\ extracted_list' = sorted
                /\ earliest' = sorted[1]
                /\ pc' = "geocode"
                /\ UNCHANGED << exit_status, console >>
    /\ UNCHANGED << inputs, load_result, config, paths, attributes, severity,
                    generated_report_text, idx, skipped_no_gps, skipped_unreadable,
                    geocoded, record, extract_calls, geocode_calls >>

\* geocoded = reverse_geocode(earliest.lat, earliest.lon)
MainGeocode ==
    /\ pc = "geocode"
    /\ geocode_calls' = Append(geocode_calls,
                               [lat |-> earliest.lat, lon |-> earliest.lon,
                                extracted |-> Len(extract_calls)])
    /\ LET result == ReverseGeocode(provider)
       IN  /\ geocoded' = result
           /\ IF ~result.some
              THEN Return("Geocoding failed; no report generated.")
              ELSE /\ pc' = "record"
                   /\ UNCHANGED << exit_status, console >>
    /\ UNCHANGED << inputs, load_result, config, paths, attributes, severity,
                    generated_report_text, idx, extracted_list, skipped_no_gps,
                    skipped_unreadable, earliest, record, extract_calls >>

S_comma_space == << ",", " " >>

\* [v.strip() for v in attr_value.split(",")]
StripAll(items) == [i \in DOMAIN items |-> Strip(items[i])]

\* attribute_descriptions
RECURSIVE AttributeDescriptions(_, _, _)
AttributeDescriptions(sofar, selected, attrs_config) ==
    IF selected = <<>> THEN sofar
    ELSE LET attr_name == selected[1][1]
             attr_value == selected[1][2]
         IN  IF ~HasKey(attrs_config, attr_name)
             THEN AttributeDescriptions(sofar, Tail(selected), attrs_config)
             ELSE LET known == Lookup(attrs_config, attr_name)
                      values == StripAll(Split(attr_value, ","))
                      descs == [i \in DOMAIN values |->
                                   IF HasKey(known, values[i]) THEN Lookup(known, values[i])
                                   ELSE values[i]]
                  IN  IF attr_name \in MultiSelect /\ HasChar(attr_value, ",")
                      THEN AttributeDescriptions(
                               Put(sofar, attr_name, Join(descs, S_comma_space)),
                               Tail(selected), attrs_config)
                      ELSE IF HasKey(known, attr_value)
                      THEN AttributeDescriptions(
                               Put(sofar, attr_name, Lookup(known, attr_value)),
                               Tail(selected), attrs_config)
                      ELSE AttributeDescriptions(sofar, Tail(selected), attrs_config)

\* record = build_report_record(...); print_report(record, ...)
\* The record lists the located images only
MainRecordLocatedOnly ==
    /\ pc = "record"
    /\ record' = BuildReportRecord(
                     earliest, geocoded, config.report_url, config.email, attributes,
                     AttributeDescriptions(<<>>, attributes, config.attributes),
                     generated_report_text,
                     [i \in DOMAIN extracted_list |-> extracted_list[i].path])
    /\ Return("report")
    /\ UNCHANGED << inputs, load_result, config, paths, attributes, severity,
                    generated_report_text, idx, extracted_list, skipped_no_gps,
                    skipped_unreadable, earliest, geocoded, extract_calls,
                    geocode_calls >>

MainRecord ==
    /\ pc = "record"
    /\ record' = BuildReportRecord(
                     earliest, geocoded, config.report_url, config.email, attributes,
                     AttributeDescriptions(<<>>, attributes, config.attributes),
                     generated_report_text,
                     [i \in DOMAIN paths |-> paths[i].name])
    /\ Return("report")
    /\ UNCHANGED << inputs, load_result, config, paths, attributes, severity,
                    generated_report_text, idx, extracted_list, skipped_no_gps,
                    skipped_unreadable, earliest, geocoded, extract_calls,
                    geocode_calls >>

Next ==
    \/ MainLoadConfig
    \/ MainScan
    \/ MainAttributes
    \/ MainGenerate
    \/ MainExtract
    \/ MainSelect
    \/ MainGeocode
    \/ MainRecord

(***************************************************************************)
(* The inputs the model runs main on                                       *)
(***************************************************************************)

\* Value keys of the attribute categories, and a value no category has.
A == << "a" >>
B == << "b" >>
AB == << "a", "_", "b" >>
X == << "x" >>

Template1 == << "{", "s", "e", "v", "e", "r", "i", "t", "y", "}", ":", " ", "{", "d", "e", "p", "t", "h", "_", "d", "e", "s", "c", "r", "i", "p", "t", "i", "o", "n", "}", " ", "a", "t", " ", "{", "l", "o", "c", "a", "t", "i", "o", "n", "_", "d", "e", "s", "c", "r", "i", "p", "t", "i", "o", "n", "}" >>
UrlX == << "h", "t", "t", "p", "s", ":", "/", "/", "x", ".", "o", "r", "g", "/" >>
S_work == << "w", "o", "r", "k" >>
Mail1 == << "e", "@", "x", ".", "o", "r", "g" >>
Mail2 == << " ", "w", "@", "x", ".", "o", "r", "g", " " >>
S_HIGH == << "H", "I", "G", "H" >>
S_EMERGENCY == << "E", "M", "E", "R", "G", "E", "N", "C", "Y" >>
S_deep == << "d", "e", "e", "p", " ", "h", "o", "l", "e" >>
S_lane == << "i", "n", " ", "t", "h", "e", " ", "l", "a", "n", "e" >>
S_nope == << "n", "o", "p", "e" >>
S_tip == << "B", "e", " ", "p", "r", "e", "c", "i", "s", "e" >>

\* attributes: depth {a, a_b}, edge {b}, location {a, b}; no width category
AttributesDoc ==
    YMap(<< << S_depth, YMap(<< << A, YStr(<< "D", "a" >>) >>,
                                << AB, YStr(<< "D", "a", "b" >>) >> >>) >>,
            << S_edge, YMap(<< << B, YStr(<< "E", "b" >>) >> >>) >>,
            << S_location, YMap(<< << A, YStr(<< "L", "a" >>) >>,
                                   << B, YStr(<< "L", "b" >>) >> >>) >> >>)

PhrasesDoc ==
    YMap(<< << S_severity, YMap(<< << A, YStr(S_HIGH) >>,
                                   << << "a", "_", "b" >>, YStr(S_EMERGENCY) >> >>) >>,
            << S_depth \o S_description_suffix, YMap(<< << A, YStr(S_deep) >> >>) >>,
            << S_location \o S_description_suffix, YMap(<< << B, YStr(S_lane) >> >>) >> >>)

AdviceDoc ==
    YMap(<< << S_key_phrases, YList(<< YStr(A), YStr(B) >>) >>,
            << S_pro_tip, YStr(S_tip) >> >>)

BaseItems ==
    << << S_report_url, YStr(UrlX) >>,
       << S_attributes, AttributesDoc >>,
       << S_report_template, YStr(Template1) >> >>

DocPlain == YMap(BaseItems)
DocPhrases ==
    YMap(BaseItems \o << << S_attribute_phrases, PhrasesDoc >>,
                         << S_advice_for_reporters, AdviceDoc >> >>)
DocScalarSeverity ==
    YMap(BaseItems \o << << S_attribute_phrases,
                            YMap(<< << S_severity, YStr(S_HIGH) >> >>) >> >>)
DocAccount == YMap(<< << S_keyring_account, YStr(S_work) >> >> \o BaseItems)
DocAttrsNotDict ==
    YMap(<< << S_attributes, YStr(S_nope) >>, << S_report_template, YStr(Template1) >> >>)
DocNoTemplate == YMap(<< << S_attributes, AttributesDoc >> >>)
DocTopList == YList(<< YStr(A) >>)

File(doc) == [exists |-> TRUE, wellformed |-> TRUE, doc |-> doc]
Missing == [exists |-> FALSE, wellformed |-> TRUE, doc |-> YNull]
Malformed == [exists |-> TRUE, wellformed |-> FALSE, doc |-> YNull]

FsOf(override, project, home) ==
    (OverridePath :> override) @@ (ProjectPath :> project) @@ (HomePath :> home)

MainFiles ==
    { File(DocPlain), File(DocPhrases), File(DocScalarSeverity), File(DocAccount),
      File(DocAttrsNotDict), File(DocNoTemplate), File(DocTopList), Malformed, Missing }

\* (args.config, fs): an override, or the two default candidates
MainConfigSides ==
    { << OverridePath, FsOf(f, Missing, File(DocPlain)) >> : f \in MainFiles }
    \cup { << NoPath, FsOf(File(DocPlain), f, Missing) >> : f \in { File(DocPhrases), Missing } }
    \cup { << NoPath, FsOf(Missing, Missing, File(DocPlain)) >> }

Keyrings ==
    { <<>>,
      << << S_email, Mail1 >> >>,
      << << S_email, <<>> >> >>,
      << << S_email, << " " >> >> >>,
      << << S_work, Mail2 >> >> }

\* The flags: --depth, --location and --width (a category the files lack)
FlagSets ==
    { [i \in 1..3 |-> << << S_depth, S_location, S_width >>[i], << d, l, w >>[i] >>] :
        d \in { <<>>, A, X },
        l \in { <<>>, A, << "b", ",", "a" >>, << "a", ",", "x" >>, << "," >> },
        w \in { <<>>, A } }

Args(cfg, given, interactive, flags) ==
    [config |-> cfg, folder_given |-> given, interactive |-> interactive, flags |-> flags]

GoodFlags == << << S_depth, A >>, << S_location, << "b", ",", "a" >> >> >>
BadFlags == << << S_depth, X >> >>

N_a == << "a", ".", "j", "p", "g" >>
N_B == << "B", ".", "J", "P", "G" >>
N_c == << "c", ".", "p", "n", "g" >>
T0 == << "2", "0", "2", "5", ":", "0", "1", ":", "0", "1", " ", "0", "9", ":", "0", "0", ":", "0", "0" >>
T1 == << "2", "0", "2", "5", ":", "0", "1", ":", "0", "2", " ", "1", "0", ":", "0", "0", ":", "3", "0" >>
T2 == << "2", "0", "2", "5", ":", "0", "1", ":", "0", "2", " ", "1", "0", ":", "0", "0", ":", "1", "0" >>

NoGps == [lat_data |-> <<>>, lat_ref |-> <<>>, lon_data |-> <<>>, lon_ref |-> <<>>]
\* 51 deg 30' 0" N, 0 deg 6' 0" W
Gps1 ==
    [lat_data |-> << << 51, 1 >>, << 30, 1 >>, << 0, 1 >> >>, lat_ref |-> << "N" >>,
     lon_data |-> << << 0, 1 >>, << 6, 1 >>, << 0, 1 >> >>, lon_ref |-> << "W" >>]
\* 33 deg 0' 1.5" S, 151 deg 12' 0" E
Gps2 ==
    [lat_data |-> << << 33, 1 >>, << 0, 1 >>, << 3, 2 >> >>, lat_ref |-> << "S" >>,
     lon_data |-> << << 151, 1 >>, << 12, 1 >>, << 0, 1 >> >>, lon_ref |-> << "E" >>]

Image(opens, has_exif, gps, dto, dt) ==
    [opens |-> opens, has_exif |-> has_exif, gps |-> gps, dto |-> dto, dt |-> dt]

Unreadable == Image(FALSE, FALSE, NoGps, YNull, YNull)
NoExif == Image(TRUE, FALSE, NoGps, YNull, YNull)
\* T1 and T2 fall in the same minute; T2 is in the generic date field
Images ==
    { Unreadable, NoExif,
      Image(TRUE, TRUE, Gps1, YStr(T0), YStr(T1)),
      Image(TRUE, TRUE, Gps2, YStr(T1), YNull),
      Image(TRUE, TRUE, Gps1, YNull, YStr(T2)),
      Image(TRUE, TRUE, Gps2, YNull, YNull) }

ImageNames == { N_a, N_B, N_c }

Entry(name, img) == [name |-> name, is_file |-> TRUE, img |-> img]

\* The most images in the folder
MaxImages == 3

\* The directory listings: entries with distinct names, in any order
Listings ==
    UNION { { l \in [1..n -> { Entry(nm, im) : nm \in ImageNames, im \in Images }] :
                \A i, j \in 1..n : i # j => l[i].name # l[j].name } :
            n \in 0..MaxImages }

Dir(listing) == [is_dir |-> TRUE, listing |-> listing]
NotADir == [is_dir |-> FALSE, listing |-> <<>>]

N_f == << "f", ".", "P", "n", "G" >>
N_d == << "d", ".", "j", "p", "e", "g" >>
N_dotjpg == << ".", "j", "p", "g" >>
N_txt == << "a", ".", "t", "x", "t" >>
N_jpgtxt == << "a", ".", "j", "p", "g", ".", "t", "x", "t" >>
N_two == << "a", ".", "b", ".", "p", "n", "g" >>
N_inner == << "z", ".", "j", "p", "g" >>

EntryNames == { N_a, N_B, N_f, N_d, N_dotjpg, N_txt, N_jpgtxt, N_two }

\* A regular file, or a subdirectory that holds an image of its own
ScanEntry(name, is_file) ==
    [name |-> name, is_file |-> is_file, img |-> NoExif,
     children |-> IF is_file THEN <<>> ELSE << Entry(N_inner, NoExif) >>]

\* A folder with entries, none of them an eligible image
DirNoImages == Dir(<< ScanEntry(N_txt, TRUE), ScanEntry(N_d, FALSE) >>)

FewFolders ==
    { NotADir, Dir(<<>>),
      Dir(<< Entry(N_a, Image(TRUE, TRUE, Gps1, YStr(T0), YNull)) >>),
      Dir(<< Entry(N_c, Unreadable), Entry(N_a, NoExif) >>) }

PC == << " ", "G", "U", "1", " ", "4", "R", "B", " " >>
Addr == << "H", "i", "g", "h", " ", "S", "t" >>

Answer(raises, found, raw, address) ==
    [raises |-> raises, found |-> found, raw |-> raw, address |-> address]

ProviderOk ==
    Answer(FALSE, TRUE, YMap(<< << S_address, YMap(<< << S_postcode, YStr(PC) >> >>) >> >>), Addr)
ProviderNoPostcode ==
    Answer(FALSE, TRUE, YMap(<< << S_address, YMap(<<>>) >> >>), Addr)
ProviderNotFound == Answer(FALSE, FALSE, YNull, <<>>)
ProviderRaises == Answer(TRUE, FALSE, YNull, <<>>)

Providers == { ProviderOk, ProviderNoPostcode, ProviderNotFound, ProviderRaises }

GoodKeyring == << << S_email, Mail1 >> >>

\* Every configuration side, with a valid and an invalid flag, on two folders
InitConfigs ==
    \E side \in MainConfigSides, k \in Keyrings, f \in { GoodFlags, BadFlags } :
        /\ args = Args(side[1], TRUE, FALSE, f)
        /\ fs = side[2]
        /\ keyring = k
        /\ folder \in { Dir(<<>>), Dir(<< Entry(N_a, Image(TRUE, TRUE, Gps1, YStr(T0), YNull)) >>) }
        /\ provider = ProviderOk

\* Every command line, on three configurations and four folders
InitArgs ==
    \E doc \in { DocPlain, DocPhrases, DocScalarSeverity } :
        /\ args \in { Args(OverridePath, TRUE, i, f) : i \in BOOLEAN, f \in FlagSets }
                    \cup { Args(OverridePath, FALSE, FALSE, GoodFlags) }
        /\ fs = FsOf(File(doc), Missing, Missing)
        /\ keyring = GoodKeyring
        /\ folder \in FewFolders
        /\ provider \in { ProviderOk, ProviderNotFound }

\* Every folder and every answer of the provider, on one configuration
InitFolders ==
    /\ args = Args(OverridePath, TRUE, FALSE, GoodFlags)
    /\ fs = FsOf(File(DocPhrases), Missing, Missing)
    /\ keyring = GoodKeyring
    /\ folder \in { Dir(l) : l \in Listings } \cup { NotADir, DirNoImages }
    /\ provider \in Providers

(***************************************************************************)
(* load_config alone: every file at every candidate path                   *)
(***************************************************************************)

TemplateItem == << S_report_template, YStr(Template1) >>
AttributesItem == << S_attributes, AttributesDoc >>

DocEmpty == YNull
DocNoAttributes == YMap(<< TemplateItem >>)
DocNothing == YMap(<< << S_report_url, YStr(UrlX) >> >>)
DocCategoryNotDict ==
    YMap(<< << S_attributes, YMap(<< << S_depth, YStr(S_nope) >> >>) >>, TemplateItem >>)
DocCategoryNotDictNoTemplate ==
    YMap(<< << S_attributes, YMap(<< << S_depth, YStr(S_nope) >> >>) >> >>)
DocDescriptionNotStr ==
    YMap(<< << S_attributes,
               YMap(<< << S_edge, YMap(<< << B, YStr(A) >> >>) >>,
                       << S_depth, YMap(<< << A, YStr(A) >>, << B, YInt(<< "7" >>) >> >>) >> >>) >>,
            TemplateItem >>)
DocTemplateNotStr ==
    YMap(<< AttributesItem, << S_report_template, YList(<< YStr(A) >>) >> >>)
DocPhrasesNotMap ==
    YMap(BaseItems \o << << S_attribute_phrases, YStr(S_nope) >> >>)
DocScalarDepthPhrase ==
    YMap(BaseItems \o << << S_attribute_phrases,
                            YMap(<< << S_depth \o S_description_suffix, YStr(S_deep) >> >>) >> >>)
DocAdviceNotMap ==
    YMap(BaseItems \o << << S_advice_for_reporters, YList(<< YStr(A) >>) >> >>)
DocKeyPhrasesNotList ==
    YMap(BaseItems \o << << S_advice_for_reporters,
                            YMap(<< << S_key_phrases, YStr(S_nope) >>,
                                    << S_pro_tip, YStr(S_tip) >> >>) >> >>)

\* Files that write an `email` key themselves
Mail3 == << "f", "@", "x", ".", "o", "r", "g" >>
DocEmailInFile == YMap(<< << S_email, YStr(Mail3) >> >> \o BaseItems)
DocAccountEmailInFile ==
    YMap(<< << S_email, YStr(Mail3) >>, << S_keyring_account, YStr(S_work) >> >> \o BaseItems)

ConfigFiles ==
    MainFiles
    \cup { File(d) : d \in { DocEmpty, DocNoAttributes, DocNothing, DocCategoryNotDict,
                             DocCategoryNotDictNoTemplate, DocDescriptionNotStr,
                             DocTemplateNotStr, DocPhrasesNotMap, DocScalarDepthPhrase,
                             DocAdviceNotMap, DocKeyPhrasesNotList, DocEmailInFile,
                             DocAccountEmailInFile } }

ConfigKeyrings ==
    Keyrings \cup { << << S_email, Mail1 >>, << S_work, << " ", "\n" >> >> >>,
                    << << S_email, Mail1 >>, << S_work, Mail2 >> >> }

InitLoadConfig ==
    /\ args \in { Args(c, TRUE, FALSE, <<>>) : c \in { NoPath, OverridePath } }
    /\ fs \in { FsOf(o, p, h) : o \in ConfigFiles, p \in ConfigFiles,
                                h \in { Missing, File(DocPlain), File(DocNoTemplate) } }
    /\ keyring \in ConfigKeyrings
    /\ folder = Dir(<<>>)
    /\ provider = ProviderOk
    /\ platform = BareYear
    /\ stdin = <<>>
    /\ pc = "load_config_call"
    /\ exit_status = -1
    /\ Unassigned

\* A call of load_config(config_path) by itself
LoadConfigCall ==
    /\ pc = "load_config_call"
    /\ load_result' = LoadConfig(args.config, fs, keyring)
    /\ config' = load_result'.config
    /\ pc' = "loaded"
    /\ UNCHANGED << inputs, exit_status, paths, attributes, severity,
                    generated_report_text, idx, extracted_list, skipped_no_gps,
                    skipped_unreadable, earliest, geocoded, record, console,
                    extract_calls, geocode_calls >>

NextLoadConfig == LoadConfigCall

SpecConfig == InitLoadConfig /\ [][NextLoadConfig]_vars

(***************************************************************************)
(* _generate_report_text alone: the configurations load_config returns,    *)
(* and every selection                                                     *)
(***************************************************************************)

DocOtherSeverity ==
    YMap(BaseItems \o << << S_attribute_phrases,
                            YMap(<< << S_severity, YMap(<< << B, YStr(S_HIGH) >>,
                                                         << << "b", "_", "a" >>, YStr(S_EMERGENCY) >> >>) >> >>) >> >>)

\* A template as its parts: literal text and {name} placeholders
Lit(text) == << "lit", text >>
Ph(name) == << "ph", name >>

RECURSIVE Unparse(_)
Unparse(parts) ==
    IF parts = <<>> THEN <<>>
    ELSE (IF Head(parts)[1] = "lit" THEN Head(parts)[2]
          ELSE << "{" >> \o Head(parts)[2] \o << "}" >>) \o Unparse(Tail(parts))

S_colon == << ":", " " >>
S_at == << " ", "a", "t", " " >>
S_hard == << "h", "a", "r", "d", " ", " ", "t", "o", " ", "s", "e", "e" >>
S_a_hole == << "a", " ", "h", "o", "l", "e" >>
S_by_a_bend == << "b", "y", " ", "a", " ", "b", "e", "n", "d" >>
S_braced == << "{", "S", "a", "}" >>
S_unknown == << "u", "n", "k", "n", "o", "w", "n" >>

Desc(category) == category \o S_description_suffix

\* "{severity}: {depth_description} at {location_description}"
Parts1 ==
    << Ph(S_severity), Lit(S_colon), Ph(Desc(S_depth)), Lit(S_at), Ph(Desc(S_location)) >>

\* A placeholder for each of the six categories
PartsSix ==
    << Ph(S_severity), Lit(S_colon), Ph(Desc(S_depth)), Lit(<< " " >>), Ph(Desc(S_edge)),
       Lit(<< " " >>), Ph(Desc(S_width)), Lit(<< " " >>), Ph(Desc(S_location)),
       Lit(<< " " >>), Ph(Desc(S_visibility)), Lit(<< " " >>), Ph(Desc(S_surface)),
       Lit(<< "." >>) >>

\* Whitespace runs, an unknown name, an empty pair of braces, a placeholder twice
PartsMessy ==
    << Lit(<< " ", " " >>), Ph(S_severity), Lit(<< "\n", "\n" >>), Ph(S_unknown),
       Lit(<< " ", "{", "}", " " >>), Ph(Desc(S_depth)), Ph(Desc(S_depth)),
       Lit(<< " ", " ", ".", " " >>) >>

TemplateParts == { Parts1, PartsSix, PartsMessy }

\* Six placeholders; no width category; a description in braces; a phrase
\* with a run of spaces
DocSix ==
    YMap(<< << S_attributes,
               YMap(AttributesDoc.kv \o
                    << << S_visibility, YMap(<< << A, YStr(<< "V", "a" >>) >>,
                                                << B, YStr(<< "V", "b" >>) >> >>) >>,
                       << S_surface, YMap(<< << A, YStr(S_braced) >> >>) >> >>) >>,
            << S_report_template, YStr(Unparse(PartsSix)) >>,
            << S_attribute_phrases,
               YMap(PhrasesDoc.kv \o
                    << << Desc(S_visibility), YMap(<< << B, YStr(S_hard) >> >>) >> >>) >> >>)

\* A messy template, and a severity written in braces
DocMessy ==
    YMap(<< AttributesItem, << S_report_template, YStr(Unparse(PartsMessy)) >>,
            << S_attribute_phrases,
               YMap(<< << S_severity, YMap(<< << A, YStr(S_HIGH) >>,
                                              << B, YStr(<< "{", "L", "O", "W", "}" >>) >> >>) >>,
                       << Desc(S_depth), YMap(<< << A, YStr(S_deep) >> >>) >> >>) >> >>)

\* Scalars where phrase tables are expected, each containing a value key
DocScalarPhrases ==
    YMap(BaseItems \o << << S_attribute_phrases,
                            YMap(<< << Desc(S_depth), YStr(S_a_hole) >>,
                                    << Desc(S_location), YStr(S_by_a_bend) >> >>) >> >>)

TextDocs ==
    { DocPlain, DocPhrases, DocOtherSeverity, DocScalarSeverity, DocScalarDepthPhrase,
      DocSix, DocMessy, DocScalarPhrases }

\* The selections: a value, no entry, or an empty value per category
Selection(d, e, l) ==
    LET all == << << S_depth, d >>, << S_edge, e >>, << S_location, l >> >>
    IN  SelectSeq(all, LAMBDA item : item[2] # << "-" >>)

Selection6(d, e, l, w, v, s) ==
    LET more == << << S_width, w >>, << S_visibility, v >>, << S_surface, s >> >>
    IN  Selection(d, e, l) \o SelectSeq(more, LAMBDA item : item[2] # << "-" >>)

Selections ==
    { Selection6(d, e, l, w, v, s) :
        d \in { << "-" >>, <<>>, A, AB },
        e \in { << "-" >>, B },
        l \in { << "-" >>, A, << "b", ",", "a" >>, << " ", "b", " ", ",", "a" >>, << "," >> },
        w \in { << "-" >>, A },
        v \in { << "-" >>, B, << "b", ",", "x", ",", "a" >> },
        s \in { << "-" >>, A } }

\* The six flags, each absent, a key, or a comma-separated value
SixFlagSets ==
    { [i \in 1..6 |-> << PhraseCategories[i], << d, e, w, l, v, s >>[i] >>] :
        d \in { <<>>, A, << "a", ",", "a", "_", "b" >> },
        e \in { <<>>, B, << "b", ",", "b" >> },
        w \in { <<>>, A },
        l \in { <<>>, << "b", ",", "a" >>, << " ", "b", " ", ",", "a" >>,
                << "a", ",", "x" >>, << "," >>, << "a", "," >> },
        v \in { <<>>, B, << "b", ",", "x", ",", "a" >>, << "a", ",", "b" >> },
        s \in { <<>>, A, << "a", ",", "a" >> } }

\* Every combination of the six flags, on the configuration of six categories
InitSixFlags ==
    /\ args \in { Args(OverridePath, TRUE, FALSE, f) : f \in SixFlagSets }
    /\ fs = FsOf(File(DocSix), Missing, Missing)
    /\ keyring = GoodKeyring
    /\ folder = Dir(<< Entry(N_a, Image(TRUE, TRUE, Gps1, YStr(T0), YNull)) >>)
    /\ provider = ProviderOk

Init ==
    /\ InitConfigs \/ InitArgs \/ InitFolders \/ InitSixFlags
    /\ platform = BareYear
    /\ stdin = <<>>
    /\ pc = "load_config"
    /\ exit_status = -1
    /\ Unassigned

Spec == Init /\ [][Next]_vars

InitText ==
    /\ \E doc \in TextDocs :
         /\ fs = FsOf(File(doc), Missing, Missing)
         /\ config = LoadFrom(OverridePath, File(doc), GoodKeyring).config
    /\ args = Args(OverridePath, TRUE, FALSE, <<>>)
    /\ keyring = GoodKeyring
    /\ folder = Dir(<<>>)
    /\ provider = ProviderOk
    /\ platform = BareYear
    /\ stdin = <<>>
    /\ attributes \in Selections
    /\ pc = "generate_call"
    /\ exit_status = -1
    /\ load_result = NoResult
    /\ paths = <<>>
    /\ severity = <<>>
    /\ generated_report_text = <<>>
    /\ idx = 1
    /\ extracted_list = <<>>
    /\ skipped_no_gps = 0
    /\ skipped_unreadable = 0
    /\ earliest = NoData
    /\ geocoded = NoGeocode
    /\ record = NoRecord
    /\ console = <<>>
    /\ extract_calls = <<>>
    /\ geocode_calls = <<>>

\* A call of _generate_report_text(attributes, config) by itself; console
\* takes the exception it raised.
GenerateCall ==
    /\ pc = "generate_call"
    /\ LET text == GenerateReportText(attributes, config)
           sev == Severity(attributes, config.attribute_phrases)
       IN  IF text.raised # "none"
           THEN /\ console' = Append(console, text.raised)
                /\ UNCHANGED << severity, generated_report_text >>
           ELSE /\ generated_report_text' = text.v
                /\ severity' = sev.v
                /\ UNCHANGED console
    /\ pc' = "generated"
    /\ UNCHANGED << inputs, exit_status, load_result, config, paths, attributes, idx,
                    extracted_list, skipped_no_gps, skipped_unreadable, earliest,
                    geocoded, record, extract_calls, geocode_calls >>

NextText == GenerateCall

SpecText == InitText /\ [][NextText]_vars

(***************************************************************************)
(* scan_folder alone: folders with files, other entries and other names    *)
(***************************************************************************)

\* The most entries in a scanned folder
MaxEntries == 3

\* The directory listings: entries with distinct names, in any order
ScanListings ==
    UNION { { l \in [1..n -> { ScanEntry(nm, f) : nm \in EntryNames, f \in BOOLEAN }] :
                \A i, j \in 1..n : i # j => l[i].name # l[j].name } :
            n \in 0..MaxEntries }

QuietInputs ==
    /\ args = Args(OverridePath, TRUE, FALSE, <<>>)
    /\ fs = FsOf(Missing, Missing, Missing)
    /\ keyring = GoodKeyring
    /\ provider = ProviderOk
    /\ platform = BareYear
    /\ stdin = <<>>

InitScan ==
    /\ QuietInputs
    /\ folder \in { NotADir } \cup { Dir(l) : l \in ScanListings }
    /\ pc = "scan_call"
    /\ exit_status = -1
    /\ Unassigned

\* A call of scan_folder(folder) by itself; console takes the exception it
\* raised.
ScanCall ==
    /\ pc = "scan_call"
    /\ LET scanned == ScanFolder(folder)
       IN  IF scanned.raised # "none"
           THEN console' = Append(console, scanned.raised) /\ UNCHANGED paths
           ELSE paths' = scanned.v /\ UNCHANGED console
    /\ pc' = "scanned"
    /\ UNCHANGED << inputs, exit_status, load_result, config, attributes, severity,
                    generated_report_text, idx, extracted_list, skipped_no_gps,
                    skipped_unreadable, earliest, geocoded, record, extract_calls,
                    geocode_calls >>

NextScan == ScanCall

SpecScan == InitScan /\ [][NextScan]_vars

(***************************************************************************)
(* reverse_geocode alone: every shape of the provider's answer             *)
(***************************************************************************)

PostcodeNodes ==
    { YNull, YInt(<< "7" >>), YStr(<<>>), YStr(<< " " >>), YStr(<< "\n", " " >>),
      YStr(PC), YStr(<< "G", "U", "1" >>), YList(<< YStr(PC) >>) }

AddressNodes ==
    { YNull, YStr(PC), YList(<<>>), YMap(<<>>) }
        \cup { YMap(<< << S_postcode, n >> >>) : n \in PostcodeNodes }

RawNodes ==
    { YNull, YMap(<<>>), YList(<< YStr(A) >>), YStr(PC),
      YMap(<< << S_postcode, YStr(PC) >> >>) }
        \cup { YMap(<< << S_address, n >> >>) : n \in AddressNodes }

ProviderAnswers ==
    { ProviderRaises, ProviderNotFound }
        \cup { Answer(FALSE, TRUE, raw, a) : raw \in RawNodes, a \in { <<>>, Addr } }

\* The places asked about
Places ==
    { ExtractedData(N_a, Float(FALSE, 103), Float(TRUE, 12), None),
      ExtractedData(N_a, Zero, Zero, Some(T0)),
      ExtractedData(N_B, Float(TRUE, 66), Float(FALSE, 302), None) }

InitGeocode ==
    /\ args = Args(OverridePath, TRUE, FALSE, <<>>)
    /\ fs = FsOf(Missing, Missing, Missing)
    /\ keyring = GoodKeyring
    /\ folder = Dir(<<>>)
    /\ provider \in ProviderAnswers
    /\ platform = BareYear
    /\ stdin = <<>>
    /\ pc = "geocode_call"
    /\ exit_status = -1
    /\ load_result = NoResult
    /\ config = NoConfig
    /\ paths = <<>>
    /\ attributes = <<>>
    /\ severity = <<>>
    /\ generated_report_text = <<>>
    /\ idx = 1
    /\ extracted_list = <<>>
    /\ skipped_no_gps = 0
    /\ skipped_unreadable = 0
    /\ earliest \in Places
    /\ geocoded = NoGeocode
    /\ record = NoRecord
    /\ console = <<>>
    /\ extract_calls = <<>>
    /\ geocode_calls = <<>>

\* A call of reverse_geocode(earliest.lat, earliest.lon) by itself
GeocodeCall ==
    /\ pc = "geocode_call"
    /\ geocode_calls' = Append(geocode_calls,
                               [lat |-> earliest.lat, lon |-> earliest.lon,
                                extracted |-> Len(extract_calls)])
    /\ geocoded' = ReverseGeocode(provider)
    /\ pc' = "geocoded"
    /\ UNCHANGED << inputs, exit_status, load_result, config, paths, attributes, severity,
                    generated_report_text, idx, extracted_list, skipped_no_gps,
                    skipped_unreadable, earliest, record, console, extract_calls >>

NextGeocode == GeocodeCall

SpecGeocode == InitGeocode /\ [][NextGeocode]_vars

(***************************************************************************)
(* build_report_record alone: report URLs and coordinates                  *)
(***************************************************************************)

UrlPlain == << "h", "t", "t", "p", "s", ":", "/", "/", "x", ".", "o", "r", "g" >>

ReportUrls ==
    { UrlPlain, UrlPlain \o << "/" >>, UrlPlain \o << "/", "/" >>, <<>>, << "/" >> }

\* 0.0, -0.0, 51.5, -33.000417 (33 deg 0' 1.5" S), 0.000139 (half a second)
Latitudes ==
    { Zero, Negate(Zero), Float(FALSE, 370800), Float(TRUE, 237603), Float(FALSE, 1) }

\* 0.0, -0.1, 151.2, -0.999861, 180.0
Longitudes ==
    { Zero, Float(TRUE, 720), Float(FALSE, 1088640), Float(TRUE, 7199),
      Float(FALSE, 180 * UnitsPerDegree) }

InitRecord ==
    /\ args = Args(OverridePath, TRUE, FALSE, <<>>)
    /\ fs = FsOf(Missing, Missing, Missing)
    /\ keyring = GoodKeyring
    /\ folder = Dir(<< Entry(N_a, NoExif) >>)
    /\ provider = ProviderOk
    /\ platform = BareYear
    /\ stdin = <<>>
    /\ pc = "record_call"
    /\ exit_status = -1
    /\ load_result = NoResult
    /\ \E url \in ReportUrls :
           config = [LoadFrom(OverridePath, File(DocPlain), GoodKeyring).config
                         EXCEPT !.report_url = url]
    /\ paths = << Entry(N_a, NoExif) >>
    /\ attributes = <<>>
    /\ severity = S_MEDIUM_RISK
    /\ generated_report_text = S_MEDIUM_RISK
    /\ idx = 1
    /\ extracted_list = <<>>
    /\ skipped_no_gps = 0
    /\ skipped_unreadable = 0
    /\ \E lat \in Latitudes, lon \in Longitudes :
           earliest = ExtractedData(N_a, lat, lon, None)
    /\ geocoded = ReverseGeocode(ProviderOk)
    /\ record = NoRecord
    /\ console = <<>>
    /\ extract_calls = <<>>
    /\ geocode_calls = <<>>

\* A call of build_report_record by itself
RecordCall ==
    /\ pc = "record_call"
    /\ record' = BuildReportRecord(
                     earliest, geocoded, config.report_url, config.email, attributes,
                     AttributeDescriptions(<<>>, attributes, config.attributes),
                     generated_report_text,
                     [i \in DOMAIN paths |-> paths[i].name])
    /\ pc' = "recorded"
    /\ UNCHANGED << inputs, exit_status, load_result, config, paths, attributes, severity,
                    generated_report_text, idx, extracted_list, skipped_no_gps,
                    skipped_unreadable, earliest, geocoded, console, extract_calls,
                    geocode_calls >>

NextRecord == RecordCall

SpecRecord == InitRecord /\ [][NextRecord]_vars

(***************************************************************************)
(* extract_all by itself, over GPS fields and date fields of every shape   *)
(***************************************************************************)

T_999 == << "0", "9", "9", "9", ":", "0", "1", ":", "0", "2", " ", "1", "0", ":", "0", "0", ":", "0", "0" >>
T_short == << "2", "0", "2", "5", ":", "1", ":", "2", " ", "3", ":", "4", ":", "5" >>
T_long == << " ", "2", "0", "2", "5", ":", "0", "1", ":", "0", "2", " ", " ", "1", "0", ":", "0", "0", ":", "3", "0", ".", "5" >>
T_feb == << "2", "0", "2", "5", ":", "0", "2", ":", "2", "9", " ", "1", "0", ":", "0", "0", ":", "0", "0" >>
T_leap == << "2", "0", "2", "4", ":", "0", "2", ":", "2", "9", " ", "2", "3", ":", "5", "9", ":", "5", "9" >>
T_sec60 == << "2", "0", "2", "5", ":", "0", "1", ":", "0", "2", " ", "1", "0", ":", "0", "0", ":", "6", "0" >>
T_dash == << "2", "0", "2", "5", "-", "0", "1", "-", "0", "2", " ", "1", "0", ":", "0", "0", ":", "3", "0" >>
T_date == << "2", "0", "2", "5", ":", "0", "1", ":", "0", "2" >>
T_spaceday == << "2", "0", "2", "5", ":", "0", "1", ":", " ", "2", " ", "1", "0", ":", "0", "0", ":", "3", "0" >>

\* GPSLatitude with no, two, three and four components
LatDatas ==
    { <<>>, << << 51, 1 >>, << 30, 1 >> >>, Gps1.lat_data, Gps2.lat_data,
      << << 51, 1 >>, << 30, 1 >>, << 0, 1 >>, << 0, 1 >> >> }

LatRefs == { <<>>, << "N" >>, << "S" >> }

\* GPSLongitude with no, one and three components; a zero denominator
LonDatas ==
    { <<>>, << << 6, 1 >> >>, Gps1.lon_data, << << 0, 1 >>, << 0, 1 >>, << 0, 0 >> >> }

\* The reference absent, west, east, and a letter that names no hemisphere
LonRefs == { <<>>, << "W" >>, << "E" >>, << "x" >> }

GpsFields ==
    { [lat_data |-> a, lat_ref |-> b, lon_data |-> c, lon_ref |-> d] :
        a \in LatDatas, b \in LatRefs, c \in LonDatas, d \in LonRefs }

\* DateTimeOriginal and DateTime as the EXIF block can hold them
Originals ==
    { YNull, YStr(<<>>), YInt(<< "7" >>), YStr(T1), YStr(T_999), YStr(T_short),
      YStr(T_long), YStr(T_feb), YStr(T_leap), YStr(T_sec60), YStr(T_dash),
      YStr(T_date), YStr(T_spaceday) }

Generics == { YNull, YStr(T2), YStr(T_sec60) }

ExtractImages ==
    { Unreadable, NoExif }
        \cup { Image(TRUE, TRUE, g, YStr(T1), YNull) : g \in GpsFields }
        \cup { Image(TRUE, TRUE, g, o, t) : g \in { Gps1, Gps2 }, o \in Originals, t \in Generics }

InitExtract ==
    /\ args = Args(OverridePath, TRUE, FALSE, <<>>)
    /\ fs = FsOf(Missing, Missing, Missing)
    /\ keyring = GoodKeyring
    /\ provider = ProviderOk
    /\ platform \in Platforms
    /\ stdin = <<>>
    /\ \E img \in ExtractImages : folder = Dir(<< Entry(N_a, img) >>)
    /\ pc = "extract_call"
    /\ exit_status = -1
    /\ load_result = NoResult
    /\ config = NoConfig
    /\ paths = folder.listing
    /\ attributes = <<>>
    /\ severity = <<>>
    /\ generated_report_text = <<>>
    /\ idx = 1
    /\ extracted_list = <<>>
    /\ skipped_no_gps = 0
    /\ skipped_unreadable = 0
    /\ earliest = NoData
    /\ geocoded = NoGeocode
    /\ record = NoRecord
    /\ console = <<>>
    /\ extract_calls = <<>>
    /\ geocode_calls = <<>>

\* A call of extract_all by itself: the data is kept, an exception is written
\* down, and None leaves both as they were
ExtractCall ==
    /\ pc = "extract_call"
    /\ LET r == ExtractAll(paths[idx])
       IN  /\ extracted_list' = IF r.kind = "data" THEN << r.data >> ELSE <<>>
           /\ console' = IF r.kind = "raised" THEN << Extract(paths[idx].img).raised >>
                         ELSE <<>>
    /\ extract_calls' = << paths[idx].name >>
    /\ pc' = "extracted"
    /\ UNCHANGED << inputs, exit_status, load_result, config, paths, attributes, severity,
                    generated_report_text, idx, skipped_no_gps, skipped_unreadable,
                    earliest, geocoded, record, geocode_calls >>

NextExtract == ExtractCall

SpecExtract == InitExtract /\ [][NextExtract]_vars

(***************************************************************************)
(* load_check_config by itself: every file at every candidate path         *)
(***************************************************************************)

SiteName == << " ", "O", "S", " ", "M", "a", "p", " " >>
SiteUrl == << "h", "t", "t", "p", "s", ":", "/", "/", "x", "/", "{", "l", "a", "t", "}" >>

SiteEntry(name, url) == YMap(<< << S_name, name >>, << S_url, url >> >>)
GoodSite == SiteEntry(YStr(SiteName), YStr(SiteUrl))
OtherSite == SiteEntry(YStr(A), YStr(<< " ", "u" >>))

SitesDoc(sites) == YMap(<< << S_report_url, YStr(UrlX) >>, << S_check_sites, sites >> >>)

\* check_sites as a file can hold it: no list, an empty list, valid entries,
\* and each way an entry can be invalid, first or after a valid one
CheckSiteValues ==
    { YNull, YList(<<>>), YMap(<<>>), YStr(S_nope), YInt(<< "0" >>), YStr(<<>>),
      YList(<< GoodSite >>),
      YList(<< GoodSite, OtherSite >>),
      YList(<< OtherSite, GoodSite >>),
      YList(<< YStr(SiteUrl) >>),
      YList(<< GoodSite, YNull >>),
      YList(<< YMap(<< << S_url, YStr(SiteUrl) >> >>) >>),
      YList(<< SiteEntry(YInt(<< "7" >>), YStr(SiteUrl)) >>),
      YList(<< SiteEntry(YStr(<< " ", "\n" >>), YStr(SiteUrl)) >>),
      YList(<< SiteEntry(YStr(<<>>), YStr(SiteUrl)) >>),
      YList(<< YMap(<< << S_name, YStr(SiteName) >> >>) >>),
      YList(<< GoodSite, SiteEntry(YStr(SiteName), YList(<< YStr(SiteUrl) >>)) >>),
      YList(<< SiteEntry(YStr(SiteName), YStr(<< " " >>)) >>),
      YList(<< SiteEntry(YNull, YNull), GoodSite >>) }

CheckFiles ==
    { Missing, Malformed, File(YNull), File(YList(<< GoodSite >>)), File(YStr(S_nope)),
      File(YMap(<<>>)), File(YMap(<< << S_report_url, YStr(UrlX) >> >>)) }
        \cup { File(SitesDoc(v)) : v \in CheckSiteValues }

CheckFsOf(override, project, home) ==
    (CheckOverridePath :> override) @@ (ProjectCheckPath :> project) @@ (HomeCheckPath :> home)

InitCheck ==
    /\ \/ /\ args = Args(CheckOverridePath, TRUE, FALSE, <<>>)
          /\ fs \in { CheckFsOf(o, File(SitesDoc(YList(<< GoodSite >>))), Missing) :
                         o \in CheckFiles }
       \/ /\ args = Args(NoPath, TRUE, FALSE, <<>>)
          /\ fs \in { CheckFsOf(File(SitesDoc(YList(<< GoodSite >>))), p, h) :
                         p \in CheckFiles,
                         h \in { Missing, Malformed, File(SitesDoc(YList(<< OtherSite >>))) } }
    /\ keyring = GoodKeyring
    /\ folder = Dir(<<>>)
    /\ provider = ProviderOk
    /\ platform = BareYear
    /\ stdin = <<>>
    /\ pc = "load_check_config_call"
    /\ exit_status = -1
    /\ Unassigned

\* A call of load_check_config(config_path) by itself; the list returned is
\* kept in load_result.config
LoadCheckConfigCall ==
    /\ pc = "load_check_config_call"
    /\ load_result' = LoadCheckConfig(args.config, fs)
    /\ pc' = "check_loaded"
    /\ UNCHANGED << inputs, exit_status, config, paths, attributes, severity,
                    generated_report_text, idx, extracted_list, skipped_no_gps,
                    skipped_unreadable, earliest, geocoded, record, console,
                    extract_calls, geocode_calls >>

NextCheck == LoadCheckConfigCall

SpecCheck == InitCheck /\ [][NextCheck]_vars

(***************************************************************************)
(* The properties of main's orchestration                                  *)
(***************************************************************************)

\* The entries of the folder that scan_folder keeps, and what extraction
\* gives for each.
ScannedEntries == { folder.listing[i] : i \in { j \in DOMAIN folder.listing :
                                                  Eligible(folder.listing[j]) } }

LocatedImages == { ExtractAll(e).data : e \in { x \in ScannedEntries :
                                                  ExtractAll(x).kind = "data" } }

\* a ranks before b: by capture time, an image without one after every image
\* that has one, then by filename.
RanksBefore(a, b) ==
    LET ta == a.datetime_taken
        tb == b.datetime_taken
    IN  IF ta.some /\ ~tb.some THEN TRUE
        ELSE IF ~ta.some /\ tb.some THEN FALSE
        ELSE IF ta.some /\ tb.some /\ ta.v # tb.v THEN StrLess(ta.v, tb.v)
        ELSE StrLess(a.path, b.path)

SelectionMade == pc \in { "geocode", "record" } \/ geocode_calls # <<>>

\* C1: the image geocoded and reported is, among the images whose extraction
\* returned a location, the one with the smallest (capture time, filename)
\* pair, an image without a capture time ranking after every image with one.
C1_EarliestSelected ==
    SelectionMade =>
        /\ earliest \in LocatedImages
        /\ \A e \in LocatedImages \ { earliest } : RanksBefore(earliest, e)
        /\ \A i \in DOMAIN geocode_calls :
               geocode_calls[i].lat = earliest.lat /\ geocode_calls[i].lon = earliest.lon
        /\ record # NoRecord =>
               /\ record.path = earliest.path
               /\ record.lat = earliest.lat /\ record.lon = earliest.lon

\* A report made from three located images: two with the same capture
\* minute, one without a capture time, the tie decided by filename.
C1_Witness ==
    /\ record # NoRecord
    /\ Cardinality(LocatedImages) = 3
    /\ earliest.datetime_taken.some
    /\ \E e \in LocatedImages \ { earliest } : e.datetime_taken = earliest.datetime_taken
    /\ \E e \in LocatedImages : ~e.datetime_taken.some

Count(kind, n) == Cardinality({ i \in 1..n : ExtractAll(paths[i]).kind = kind })

\* C2: the loop visits every scanned image once, in order, whatever the
\* earlier ones did; an image counts as unreadable exactly when its extraction
\* raised, as no-GPS exactly when it returned None, as located otherwise; a
\* failing image never ends the run; at the end the three counts add up to
\* the number of scanned images.
C2_LoopCounts ==
    /\ pc \in { "extract", "geocode", "record" } \/ (pc = "exit" /\ extract_calls # <<>>) =>
        /\ idx - 1 <= Len(paths)
        /\ extract_calls = [i \in 1..(idx - 1) |-> paths[i].name]
        /\ skipped_unreadable = Count("raised", idx - 1)
        /\ skipped_no_gps = Count("none", idx - 1)
        /\ Len(extracted_list) = Count("data", idx - 1)
        /\ pc # "extract" =>
            /\ idx - 1 = Len(paths)
            /\ skipped_unreadable + skipped_no_gps + Len(extracted_list) = Len(paths)
    /\ pc = "exit" /\ extract_calls # <<>> => exit_status = 0

\* A run whose first image is unreadable and which still counts one image of
\* each kind.
C2_Witness ==
    /\ pc = "exit"
    /\ Len(paths) = 3
    /\ ExtractAll(paths[1]).kind = "raised"
    /\ skipped_unreadable = 1 /\ skipped_no_gps = 1 /\ Len(extracted_list) = 1
    /\ record # NoRecord

\* C3: reverse_geocode is called at most once, only after every scanned image
\* has been extracted, with the coordinates of the selected image; once the
\* loop has ended and the run is over it has been called exactly once when
\* some image has a location and never when none has.
C3_GeocodeOnce ==
    /\ Len(geocode_calls) <= 1
    /\ \A i \in DOMAIN geocode_calls :
        /\ geocode_calls[i].extracted = Len(paths)
        /\ extract_calls = [j \in DOMAIN paths |-> paths[j].name]
        /\ \E e \in LocatedImages :
            /\ \A o \in LocatedImages \ { e } : RanksBefore(e, o)
            /\ geocode_calls[i].lat = e.lat /\ geocode_calls[i].lon = e.lon
    /\ LocatedImages = {} => geocode_calls = <<>>
    /\ pc = "exit" /\ extract_calls # <<>> =>
        (Len(geocode_calls) = 1 <=> LocatedImages # {})

\* One call, made after three images were extracted, two of them located.
C3_Witness ==
    /\ pc = "exit"
    /\ Len(geocode_calls) = 1
    /\ Len(paths) = 3
    /\ Cardinality(LocatedImages) = 2
    /\ skipped_unreadable = 1

(***************************************************************************)
(* The properties of load_config                                           *)
(***************************************************************************)

\* The candidate paths of a call, the ones that exist, and the file opened.
CandidatePaths ==
    IF args.config # NoPath THEN << args.config >> ELSE << ProjectPath, HomePath >>

ExistingCandidates == SelectSeq(CandidatePaths, LAMBDA p : fs[p].exists)

OpenedFile == fs[ExistingCandidates[1]]

\* A file exists and its content is a mapping (an empty file counts as {}).
ParsesToMapping ==
    /\ ExistingCandidates # <<>>
    /\ OpenedFile.wellformed
    /\ ~Truthy(OpenedFile.doc) \/ OpenedFile.doc.t = "map"

FileData == IF Truthy(OpenedFile.doc) THEN OpenedFile.doc ELSE YMap(<<>>)

ConfiguredAccount == PyStr(YGetOr(FileData, S_keyring_account, YStr(S_email)))

\* The store holds an email under the configured account: an entry that is
\* not empty and not whitespace only.
EmailStored ==
    /\ HasKey(keyring, ConfiguredAccount)
    /\ \E i \in DOMAIN Lookup(keyring, ConfiguredAccount) :
           Lookup(keyring, ConfiguredAccount)[i] \notin Whitespace

FileAttributes == YGet(FileData, S_attributes)
FileTemplate == YGet(FileData, S_report_template)

ShapeErrors == { "attributes_not_dict", "category_not_dict", "description_not_str" }

\* `attributes` is not a mapping of mappings of strings.
HasShapeDefect(a) ==
    \/ a.t # "map"
    \/ \E i \in DOMAIN a.kv :
          \/ a.kv[i][2].t # "map"
          \/ \E j \in DOMAIN a.kv[i][2].kv : a.kv[i][2].kv[j][2].t # "str"

\* The file's own defect, in the order presence and shape of `attributes`,
\* then presence and type of `report_template`; "none" without one.
FileDefect ==
    IF FileAttributes.t = "null" THEN { "attributes_missing" }
    ELSE IF HasShapeDefect(FileAttributes) THEN ShapeErrors
    ELSE IF FileTemplate.t = "null" THEN { "template_missing" }
    ELSE IF FileTemplate.t # "str" THEN { "template_not_str" }
    ELSE { "none" }

\* C4, as the code has it: for a file that parses to a mapping load_config
\* checks the email under the configured account first, then the presence of
\* `attributes`, their shape, the presence of `report_template` and its type,
\* and raises for the first of these that fails.
C4_EmailFirst ==
    pc = "loaded" /\ ParsesToMapping =>
        IF ~EmailStored THEN load_result.error = "email_not_found"
        ELSE load_result.error \in FileDefect

\* A file whose `attributes` are malformed, no email stored: the email error.
C4_Witness ==
    /\ pc = "loaded"
    /\ ParsesToMapping
    /\ FileAttributes.t # "null" /\ HasShapeDefect(FileAttributes)
    /\ ~EmailStored
    /\ load_result.error = "email_not_found"

\* C4, as the specification has it: a file with a structural or
\* required-field defect fails with that defect's error whether or not an
\* email is stored; the email is checked last.
C4_EmailLast ==
    pc = "loaded" /\ ParsesToMapping =>
        IF FileDefect # { "none" } THEN load_result.error \in FileDefect
        ELSE IF ~EmailStored THEN load_result.error = "email_not_found"
        ELSE load_result.error = "none"

FilePhrases == YGet(FileData, S_attribute_phrases)
FileAdvice == YGet(FileData, S_advice_for_reporters)

\* The entry of the returned attribute_phrases under key is absent or empty.
EntryEmpty(phrases, key) ==
    HasKey(phrases, key) => Lookup(phrases, key).s = <<>> /\ Lookup(phrases, key).kv = <<>>

ValidFileWithEmail ==
    /\ pc = "loaded"
    /\ ParsesToMapping
    /\ EmailStored
    /\ FileDefect = { "none" }

\* C5: with valid `attributes` and `report_template` and an email stored,
\* load_config succeeds and every malformed part of `attribute_phrases` and
\* `advice_for_reporters` is empty in the result; absent sections give {},
\* [] and "".
C5_MalformedIsEmpty ==
    ValidFileWithEmail =>
        /\ load_result.kind = "ok"
        /\ FilePhrases.t # "map" => config.attribute_phrases = <<>>
        /\ FilePhrases.t = "map" =>
              \A i \in DOMAIN FilePhrases.kv :
                  FilePhrases.kv[i][2].t # "map" =>
                      EntryEmpty(config.attribute_phrases, FilePhrases.kv[i][1])
        /\ FileAdvice.t # "map" =>
              /\ config.advice_for_reporters.key_phrases = <<>>
              /\ config.advice_for_reporters.pro_tip = <<>>
        /\ FileAdvice.t = "map" /\ YGet(FileAdvice, S_key_phrases).t # "list" =>
              config.advice_for_reporters.key_phrases = <<>>

\* The returned configuration holds the text of a scalar `severity`.
C5_Witness ==
    /\ ValidFileWithEmail
    /\ load_result.kind = "ok"
    /\ HasKey(config.attribute_phrases, S_severity)
    /\ Lookup(config.attribute_phrases, S_severity).t = "str"
    /\ Lookup(config.attribute_phrases, S_severity).s = S_HIGH

\* C5, the part the code keeps: load_config succeeds, and a section that is
\* not a mapping, or a key_phrases that is not a list, is empty in the result.
C5_SectionsDegrade ==
    ValidFileWithEmail =>
        /\ load_result.kind = "ok"
        /\ FilePhrases.t # "map" => config.attribute_phrases = <<>>
        /\ FileAdvice.t # "map" =>
              /\ config.advice_for_reporters.key_phrases = <<>>
              /\ config.advice_for_reporters.pro_tip = <<>>
        /\ FileAdvice.t = "map" /\ YGet(FileAdvice, S_key_phrases).t # "list" =>
              config.advice_for_reporters.key_phrases = <<>>

\* C6: FileNotFoundError is raised exactly when no candidate exists, the
\* candidates being the override alone or else the project path then the home
\* path; the error lists every candidate; otherwise the first existing
\* candidate is the file loaded.
C6_NotFoundExactly ==
    pc = "loaded" =>
        /\ load_result.kind = "FileNotFoundError" <=>
               \A i \in DOMAIN CandidatePaths : ~fs[CandidatePaths[i]].exists
        /\ load_result.kind = "FileNotFoundError" =>
               load_result.searched = CandidatePaths
        /\ load_result.kind # "FileNotFoundError" =>
               /\ load_result.path = ExistingCandidates[1]
               /\ load_result = LoadFrom(ExistingCandidates[1], OpenedFile, keyring)
               /\ load_result.kind = "ok" => config.loaded_from = ExistingCandidates[1]

\* Neither default file exists; the override file does, but was not given.
C6_Witness ==
    /\ pc = "loaded"
    /\ args.config = NoPath
    /\ fs[OverridePath].exists
    /\ load_result.kind = "FileNotFoundError"
    /\ load_result.searched = << ProjectPath, HomePath >>

\* C7: a config file exists and parses to a mapping, and the store holds no
\* email (no entry, an empty one, or whitespace only) under the configured
\* account: load_config raises the email-not-found ValueError and returns
\* nothing, and main exits 1 with no scan, no extraction and no geocoding.
C7_NoEmailExits ==
    pc # "load_config" /\ ParsesToMapping /\ ~EmailStored =>
        /\ load_result.kind = "ValueError"
        /\ load_result.error = "email_not_found"
        /\ config = NoConfig
        /\ pc = "exit"
        /\ exit_status = 1
        /\ paths = <<>>
        /\ extract_calls = <<>>
        /\ geocode_calls = <<>>

\* The entry is whitespace only, the folder holds an image: exit 1, no scan.
C7_Witness ==
    /\ pc = "exit"
    /\ ParsesToMapping
    /\ HasKey(keyring, ConfiguredAccount)
    /\ Lookup(keyring, ConfiguredAccount) # <<>>
    /\ load_result.error = "email_not_found"
    /\ folder.listing # <<>>
    /\ exit_status = 1

(***************************************************************************)
(* The properties of main's exits                                          *)
(***************************************************************************)

ConfigLoaded == pc # "load_config" /\ load_result.kind = "ok"

\* The items of a comma-separated value that are not blank, stripped.
Items(value) == StripNonEmpty(Split(value, ","))

\* The flag gives, for a category the configuration defines, a value that is
\* not one of its keys: the whole value, or for --location and --visibility
\* with a comma-separated list, one of its items.
FlagInvalid(name, value) ==
    /\ value # <<>>
    /\ HasKey(load_result.config.attributes, name)
    /\ LET known == Lookup(load_result.config.attributes, name)
       IN  IF name \in { S_location, S_visibility } /\ HasChar(value, ",")
           THEN \E i \in DOMAIN Items(value) : ~HasKey(known, Items(value)[i])
           ELSE ~HasKey(known, value)

SomeFlagInvalid ==
    \E i \in DOMAIN args.flags : FlagInvalid(args.flags[i][1], args.flags[i][2])

\* C8, as the code has it: without --interactive, a run with an invalid flag
\* value never produces a report, and it exits non-zero unless the folder is
\* a directory with no eligible image, in which case it returns normally
\* (status 0) before the flags are looked at.
C8_InvalidFlagNoReport ==
    ConfigLoaded /\ ~args.interactive /\ SomeFlagInvalid =>
        /\ record = NoRecord
        /\ geocode_calls = <<>>
        /\ pc = "exit" =>
              (exit_status = 0 <=>
                   args.folder_given /\ folder.is_dir /\ ScannedEntries = {})

\* An invalid --depth on a folder that holds an image: exit 1, no report.
C8_Witness ==
    /\ pc = "exit"
    /\ ConfigLoaded
    /\ ~args.interactive
    /\ FlagInvalid(S_depth, FlagValue(args.flags, S_depth))
    /\ ScannedEntries # {}
    /\ exit_status = 1
    /\ record = NoRecord

\* C8, as the specification has it: every run with an invalid flag value
\* exits non-zero without a report, whatever the folder contains.
C8_InvalidFlagExitsNonZero ==
    pc = "exit" /\ ConfigLoaded /\ SomeFlagInvalid =>
        /\ exit_status # 0
        /\ record = NoRecord

\* The selection of the run is valid and not empty: no flag is invalid and
\* some flag selects a value of a defined category; in interactive mode, the
\* user selected something.
ValidSelection ==
    IF args.interactive THEN attributes # <<>>
    ELSE /\ ~SomeFlagInvalid
         /\ \E i \in DOMAIN args.flags :
                /\ args.flags[i][2] # <<>>
                /\ HasKey(load_result.config.attributes, args.flags[i][1])

\* No eligible image, no image with a location, or no geocoding result.
NeutralCase ==
    \/ ScannedEntries = {}
    \/ LocatedImages = {}
    \/ ~ReverseGeocode(provider).some

\* C9: with a configuration load_config accepts, an existing folder and a
\* valid non-empty selection, a run in a neutral case ends with status 0 and
\* without a report record.
C9_NeutralExitsZero ==
    pc = "exit" /\ ConfigLoaded /\ args.folder_given /\ folder.is_dir
        /\ ValidSelection /\ NeutralCase =>
            /\ exit_status = 0
            /\ record = NoRecord

\* A folder whose images all lack a location, a valid selection, a
\* configuration whose `severity` is a scalar: the run ends in a traceback.
C9_Witness ==
    /\ pc = "exit"
    /\ ConfigLoaded /\ args.folder_given /\ folder.is_dir /\ ~args.interactive
    /\ ValidSelection
    /\ ScannedEntries # {} /\ LocatedImages = {}
    /\ exit_status = 1
    /\ console = << "Traceback" >>
    /\ extract_calls = <<>>

\* Every entry of attribute_phrases is a table.
PhrasesAreTables ==
    \A i \in DOMAIN load_result.config.attribute_phrases :
        load_result.config.attribute_phrases[i][2].t = "map"

\* C9, for the configurations whose phrase entries are all tables: the
\* neutral cases end with status 0 and without a record.
C9_NeutralWhenTables ==
    pc = "exit" /\ ConfigLoaded /\ args.folder_given /\ folder.is_dir
        /\ ValidSelection /\ NeutralCase /\ PhrasesAreTables =>
            /\ exit_status = 0
            /\ record = NoRecord

(***************************************************************************)
(* The properties of _generate_report_text                                 *)
(***************************************************************************)

\* The first selected value of a category, as a list of at most one.
FirstOf(category) ==
    IF HasKey(attributes, category) /\ ParseValue(Lookup(attributes, category)) # <<>>
    THEN << ParseValue(Lookup(attributes, category))[1] >>
    ELSE <<>>

CompositeKey == Join(FirstOf(S_depth) \o FirstOf(S_edge) \o FirstOf(S_location), << "_" >>)

NoneSelected == FirstOf(S_depth) \o FirstOf(S_edge) \o FirstOf(S_location) = <<>>

\* The severity table of the configuration; empty when there is none.
SeverityTable ==
    IF HasKey(config.attribute_phrases, S_severity)
       /\ Lookup(config.attribute_phrases, S_severity).t = "map"
    THEN Lookup(config.attribute_phrases, S_severity).kv
    ELSE <<>>

ExpectedSeverity ==
    IF ~NoneSelected /\ HasKey(SeverityTable, CompositeKey)
    THEN Lookup(SeverityTable, CompositeKey)
    ELSE S_MEDIUM_RISK

\* C10: the severity is the entry of attribute_phrases['severity'] under the
\* '_'-join of the first selected values of depth, edge, location, and
\* 'MEDIUM RISK' in every other case: no matching entry, no severity table,
\* nothing selected.
C10_SeverityLookup ==
    pc = "generated" => console = <<>> /\ severity = ExpectedSeverity

\* A depth is selected and `severity` is a scalar: AttributeError.
C10_Witness ==
    /\ pc = "generated"
    /\ FirstOf(S_depth) # <<>>
    /\ HasKey(config.attribute_phrases, S_severity)
    /\ Lookup(config.attribute_phrases, S_severity).t = "str"
    /\ console = << "AttributeError" >>

\* Every entry of the configuration's attribute_phrases is a table.
TextPhrasesAreTables ==
    \A i \in DOMAIN config.attribute_phrases : config.attribute_phrases[i][2].t = "map"

\* C10, when every entry of attribute_phrases is a table: the severity is the
\* severity table's entry under the composite key, else 'MEDIUM RISK'.
C10_SeverityWhenTable ==
    pc = "generated" /\ TextPhrasesAreTables => console = <<>> /\ severity = ExpectedSeverity

\* The parts of the configuration's template
PartsOf(template) == CHOOSE parts \in TemplateParts : Unparse(parts) = template

\* The phrase table of a category; empty when there is none.
PhraseTableOf(category) ==
    IF HasKey(config.attribute_phrases, Desc(category))
       /\ Lookup(config.attribute_phrases, Desc(category)).t = "map"
    THEN Lookup(config.attribute_phrases, Desc(category)).kv
    ELSE <<>>

\* The phrase of one selected key, by priority: the phrase table, the
\* description in `attributes`, the key itself.
PhraseByPriority(category, key) ==
    IF HasKey(PhraseTableOf(category), key) THEN Lookup(PhraseTableOf(category), key)
    ELSE IF HasKey(config.attributes, category)
            /\ HasKey(Lookup(config.attributes, category), key)
    THEN Lookup(Lookup(config.attributes, category), key)
    ELSE key

HasSelection(category) ==
    HasKey(attributes, category) /\ Lookup(attributes, category) # <<>>

RECURSIVE PhrasesByPriority(_, _)
PhrasesByPriority(category, keys) ==
    IF keys = <<>> THEN <<>>
    ELSE << PhraseByPriority(category, Head(keys)) >>
             \o PhrasesByPriority(category, Tail(keys))

\* The phrase of a category that has a selection.
ExpectedPhrase(category) ==
    LET value == Lookup(attributes, category)
    IN  IF category \in { S_location, S_visibility }
        THEN Join(PhrasesByPriority(category, ParseValue(value)), S_and)
        ELSE PhraseByPriority(category, value)

\* What one part of the template becomes.
ExpectedPart(part) ==
    IF part[1] = "lit" THEN part[2]
    ELSE IF part[2] = S_severity THEN ExpectedSeverity
    ELSE IF \E i \in DOMAIN PhraseCategories :
                part[2] = Desc(PhraseCategories[i]) /\ HasSelection(PhraseCategories[i])
    THEN ExpectedPhrase(CHOOSE c \in { PhraseCategories[i] : i \in DOMAIN PhraseCategories } :
                            part[2] = Desc(c))
    ELSE <<>>

RECURSIVE ExpectedParts(_)
ExpectedParts(parts) ==
    IF parts = <<>> THEN <<>> ELSE ExpectedPart(Head(parts)) \o ExpectedParts(Tail(parts))

\* The template with every part replaced, runs of whitespace collapsed,
\* trimmed.
ExpectedText ==
    Strip(CollapseWhitespace(ExpectedParts(PartsOf(config.report_template))))

\* The single-valued categories
SingleValued == { S_depth, S_edge, S_width, S_surface }

\* The phrase a single-valued category resolves to is in the text as it is,
\* up to runs of whitespace.
PhraseAppears(category) ==
    IsSubstring(Strip(CollapseWhitespace(ExpectedPhrase(category))), generated_report_text)

InTemplate(category) ==
    \E i \in DOMAIN PartsOf(config.report_template) :
        PartsOf(config.report_template)[i] = Ph(Desc(category))

\* C11: the phrase of every selected category is resolved by priority (phrase
\* table, description, key), so the text is the template with these phrases
\* in place, and the phrase of a selected value whose placeholder is in the
\* template is in the text.
C11_PhrasePriority ==
    pc = "generated" =>
        /\ console = <<>>
        /\ generated_report_text = ExpectedText
        /\ \A c \in SingleValued : HasSelection(c) /\ InTemplate(c) => PhraseAppears(c)

\* A depth key that occurs in a scalar depth_description: TypeError.
C11_Witness ==
    /\ pc = "generated"
    /\ HasSelection(S_depth)
    /\ HasKey(config.attribute_phrases, Desc(S_depth))
    /\ Lookup(config.attribute_phrases, Desc(S_depth)).t = "str"
    /\ console = << "TypeError" >>

BraceFree(s) == ~HasChar(s, "{") /\ ~HasChar(s, "}")

\* Neither the severity nor a phrase the selection resolves to holds a brace.
PhrasesBraceFree ==
    /\ BraceFree(ExpectedSeverity)
    /\ \A i \in DOMAIN PhraseCategories :
           HasSelection(PhraseCategories[i]) => BraceFree(ExpectedPhrase(PhraseCategories[i]))

\* C11, when every entry of attribute_phrases is a table and no resolved
\* phrase holds a brace: the text is the template with the phrases in place.
C11_PriorityWhenTables ==
    pc = "generated" /\ TextPhrasesAreTables /\ PhrasesBraceFree =>
        /\ console = <<>>
        /\ generated_report_text = ExpectedText
        /\ \A c \in SingleValued : HasSelection(c) /\ InTemplate(c) => PhraseAppears(c)

\* The categories that take several values
MultiValued == { S_location, S_visibility }

\* The values selected for a category, in the order of selection
SelectedValues(category) == ParseValue(Lookup(attributes, category))

\* The phrases of the selected values joined with ' and ', as the text
\* shows them
JoinedPhrases(category) ==
    Strip(CollapseWhitespace(
        Join(PhrasesByPriority(category, SelectedValues(category)), S_and)))

\* C12: for location and visibility the phrases of the selected values, each
\* resolved by the priority rule, are in the text joined with ' and ' in the
\* order of selection; one value gives its phrase alone.
C12_JoinedInOrder ==
    pc = "generated" =>
        \A c \in MultiValued :
            HasSelection(c) =>
                /\ console = <<>>
                /\ InTemplate(c) => IsSubstring(JoinedPhrases(c), generated_report_text)

\* Two locations selected and a scalar location_description that holds the
\* first as a substring: TypeError.
C12_Witness ==
    /\ pc = "generated"
    /\ HasSelection(S_location)
    /\ Len(SelectedValues(S_location)) = 2
    /\ HasKey(config.attribute_phrases, Desc(S_location))
    /\ Lookup(config.attribute_phrases, Desc(S_location)).t = "str"
    /\ console = << "TypeError" >>

\* C12, when every entry of attribute_phrases is a table: the joined phrases
\* are in the text, in the order of selection.
C12_JoinedWhenTables ==
    pc = "generated" /\ TextPhrasesAreTables =>
        \A c \in MultiValued :
            HasSelection(c) =>
                /\ console = <<>>
                /\ InTemplate(c) => IsSubstring(JoinedPhrases(c), generated_report_text)

\* Three visibility values, one of them known nowhere, all in the text in
\* the order of selection.
C12_ThreeJoined ==
    /\ pc = "generated"
    /\ console = <<>>
    /\ HasSelection(S_visibility)
    /\ Len(SelectedValues(S_visibility)) = 3
    /\ InTemplate(S_visibility)
    /\ JoinedPhrases(S_visibility)
           = << "h", "a", "r", "d", " ", "t", "o", " ", "s", "e", "e" >> \o S_and
                 \o X \o S_and \o << "V", "a" >>

\* A '{...}' token: an opening brace, one or more characters other than a
\* closing brace, a closing brace
HasToken(s) ==
    \E i, j \in DOMAIN s :
        /\ i + 1 < j
        /\ s[i] = "{"
        /\ s[j] = "}"
        /\ \A k \in (i + 1)..(j - 1) : s[k] # "}"

\* Two whitespace characters side by side
HasWhitespaceRun(s) ==
    \E i \in DOMAIN s : i < Len(s) /\ s[i] \in Whitespace /\ s[i + 1] \in Whitespace

HasOuterWhitespace(s) ==
    s # <<>> /\ (s[1] \in Whitespace \/ s[Len(s)] \in Whitespace)

\* The template of the configuration holds {severity}
SeverityInTemplate ==
    \E i \in DOMAIN PartsOf(config.report_template) :
        PartsOf(config.report_template)[i] = Ph(S_severity)

\* C13: a returned text holds no '{...}' token, no run of whitespace and no
\* leading or trailing whitespace; {severity} is replaced by the severity,
\* which is 'MEDIUM RISK' when none of depth, edge, location is selected.
C13_CleanText ==
    pc = "generated" /\ console = <<>> =>
        /\ ~HasToken(generated_report_text)
        /\ ~HasWhitespaceRun(generated_report_text)
        /\ ~HasOuterWhitespace(generated_report_text)
        /\ SeverityInTemplate =>
               /\ NoneSelected => IsSubstring(S_MEDIUM_RISK, generated_report_text)
               /\ BraceFree(ExpectedSeverity) =>
                      IsSubstring(ExpectedSeverity, generated_report_text)

\* Nothing selected and a template with whitespace runs, an unknown
\* placeholder, an empty pair of braces and placeholders of unselected
\* categories.
C13_Witness ==
    /\ pc = "generated"
    /\ console = <<>>
    /\ config.report_template = Unparse(PartsMessy)
    /\ NoneSelected
    /\ generated_report_text = S_MEDIUM_RISK \o << " ", "{", "}", " ", "." >>

(***************************************************************************)
(* The properties of scan_folder                                           *)
(***************************************************************************)

\* The name is a non-empty stem followed by `tail`, letter case aside.
EndsIn(name, tail) ==
    /\ Len(name) > Len(tail)
    /\ Lower(SubSeq(name, Len(name) - Len(tail) + 1, Len(name))) = tail

HasImageExtension(name) ==
    \/ EndsIn(name, << ".", "j", "p", "g" >>)
    \/ EndsIn(name, << ".", "j", "p", "e", "g" >>)
    \/ EndsIn(name, << ".", "p", "n", "g" >>)

\* The direct entries of the folder that are regular files with an image
\* extension
DirectImages ==
    { e \in { folder.listing[i] : i \in DOMAIN folder.listing } :
        e.is_file /\ HasImageExtension(e.name) }

\* C14: scan_folder returns exactly the folder's direct regular files whose
\* extension is jpg, jpeg or png in any letter case, each once, in ascending
\* codepoint order of their names.
C14_ScanExact ==
    pc = "scanned" /\ folder.is_dir =>
        /\ console = <<>>
        /\ { paths[i] : i \in DOMAIN paths } = DirectImages
        /\ Len(paths) = Cardinality(DirectImages)
        /\ \A i, j \in DOMAIN paths : i < j => StrLess(paths[i].name, paths[j].name)

\* An upper-case and a mixed-case extension, listed out of order, next to a
\* subdirectory with an image name.
C14_Witness ==
    /\ pc = "scanned"
    /\ folder.is_dir
    /\ Len(folder.listing) = 3
    /\ folder.listing[1].name = N_f /\ folder.listing[1].is_file
    /\ folder.listing[2].name = N_d /\ ~folder.listing[2].is_file
    /\ folder.listing[3].name = N_B /\ folder.listing[3].is_file
    /\ Len(paths) = 2
    /\ paths[1].name = N_B
    /\ paths[2].name = N_f

\* C15: the scan fails exactly when the folder is not a directory, and main
\* then exits with status 1; on a directory without an eligible image the
\* scan gives the empty sequence, main prints the no-images message and
\* returns; on any other directory main goes on.
C15_ScanOutcome ==
    [][pc = "scan" /\ args.folder_given =>
          /\ ~folder.is_dir =>
                 /\ ScanFolder(folder).raised = "NotADirectoryError"
                 /\ pc' = "exit" /\ exit_status' = 1
                 /\ console' = Append(console, "Error")
                 /\ record' = NoRecord
          /\ folder.is_dir /\ DirectImages = {} =>
                 /\ ScanFolder(folder) = Ok(<<>>)
                 /\ pc' = "exit" /\ exit_status' = 0
                 /\ console' = Append(console, "No JPG/PNG files found in folder.")
                 /\ record' = NoRecord
          /\ folder.is_dir /\ DirectImages # {} =>
                 /\ ScanFolder(folder).raised = "none"
                 /\ pc' = "attributes" /\ paths' # <<>>]_vars

\* main has left after the scan of a path that is not a directory.
C15_Witness ==
    /\ load_result.kind = "ok"
    /\ args.folder_given
    /\ ~folder.is_dir
    /\ pc = "exit"
    /\ exit_status = 1
    /\ console = << "Error" >>

\* main has returned after the scan of a folder with entries, none of them
\* an eligible image.
C15_NoImagesReturned ==
    /\ load_result.kind = "ok"
    /\ folder = DirNoImages
    /\ pc = "exit"
    /\ exit_status = 0
    /\ console = << "No JPG/PNG files found in folder." >>

(***************************************************************************)
(* The properties of reverse_geocode                                       *)
(***************************************************************************)

\* The provider returned a location whose raw data has an address mapping
\* with a string under 'postcode'.
HasPostcodeString ==
    /\ ~provider.raises
    /\ provider.found
    /\ provider.raw.t = "map"
    /\ HasKey(provider.raw.kv, S_address)
    /\ Lookup(provider.raw.kv, S_address).t = "map"
    /\ HasKey(Lookup(provider.raw.kv, S_address).kv, S_postcode)
    /\ Lookup(Lookup(provider.raw.kv, S_address).kv, S_postcode).t = "str"

ProviderPostcode == Lookup(Lookup(provider.raw.kv, S_address).kv, S_postcode).s

AllWhitespace(s) == \A i \in DOMAIN s : s[i] \in Whitespace

\* C16: reverse_geocode returns a result exactly when the provider's location
\* has an address mapping with a string postcode that is not all whitespace;
\* the postcode returned is that string trimmed, never empty; in every other
\* case, a raising provider included, the result is absent.
C16_PostcodeOrAbsent ==
    pc = "geocoded" =>
        IF HasPostcodeString /\ ~AllWhitespace(ProviderPostcode)
        THEN /\ geocoded.some
             /\ geocoded.postcode # <<>>
             /\ ~HasOuterWhitespace(geocoded.postcode)
             /\ \E before, after \in { <<>>, << " " >>, << "\n" >>, << "\n", " " >> } :
                    ProviderPostcode = before \o geocoded.postcode \o after
             /\ geocoded.address = provider.address
        ELSE geocoded = NoGeocode

\* A postcode with a space on each side, returned trimmed.
C16_Witness ==
    /\ pc = "geocoded"
    /\ HasPostcodeString
    /\ ProviderPostcode = << " " >> \o geocoded.postcode \o << " " >>
    /\ geocoded.some
    /\ geocoded.postcode = << "G", "U", "1", " ", "4", "R", "B" >>

\* The provider raised: absent.
C16_RaisedAbsent == pc = "geocoded" /\ provider.raises /\ geocoded = NoGeocode

(***************************************************************************)
(* The properties of build_report_record                                   *)
(***************************************************************************)

\* The text is a decimal numeral with one to six digits after the point
\* that denotes x rounded to six decimal places, sign included: its distance
\* from x is at most half a millionth of a degree.
IsRounded(text, x) ==
    LET neg == text # <<>> /\ Head(text) = "-"
        body == IF neg THEN Tail(text) ELSE text
        points == { i \in DOMAIN body : body[i] = "." }
    IN  /\ neg = x.neg
        /\ Cardinality(points) = 1
        /\ LET point == CHOOSE i \in points : TRUE
               whole == SubSeq(body, 1, point - 1)
               frac == SubSeq(body, point + 1, Len(body))
           IN  /\ AllDigits(whole) /\ AllDigits(frac) /\ Len(frac) <= 6
               /\ LET micro == Number(whole) * MicroPerDegree
                                   + Number(frac) * 10 ^ (6 - Len(frac))
                      diff == micro * MicroDen - x.units * MicroNum
                  IN  diff <= MicroDen \div 2 /\ diff >= 0 - (MicroDen \div 2)

\* The report_url without the slashes at its end
UrlBase ==
    LET url == config.report_url
        last == CHOOSE k \in 0..Len(url) :
                    /\ k > 0 => url[k] # "/"
                    /\ \A j \in (k + 1)..Len(url) : url[j] = "/"
    IN  SubSeq(url, 1, last)

\* C17: the reporting URL is the report_url without its trailing slash, then
\* '/around?lat=<lat>&lon=<lon>&zoom=4'; the maps URL is
\* 'https://www.google.com/maps?q=<lat>,<lon>'; <lat> and <lon> are the
\* coordinates rounded to 6 decimal places; the result never holds
\* '//around'.
C17_Urls ==
    pc = "recorded" =>
        /\ \E lat, lon \in { SubSeq(record.google_maps_url, a, b) :
                               a, b \in DOMAIN record.google_maps_url } :
              /\ IsRounded(lat, earliest.lat)
              /\ IsRounded(lon, earliest.lon)
              /\ record.fill_that_hole_url
                     = UrlBase \o S_around \o lat \o S_lon \o lon \o S_zoom
              /\ record.google_maps_url = S_maps \o lat \o << "," >> \o lon
        /\ ~IsSubstring(<< "/", "/", "a", "r", "o", "u", "n", "d" >>,
                        record.fill_that_hole_url)

\* A report_url that ends in a slash, a southern latitude with a half
\* second, a western longitude.
C17_Witness ==
    /\ pc = "recorded"
    /\ config.report_url = UrlPlain \o << "/" >>
    /\ earliest.lat = Float(TRUE, 237603)
    /\ earliest.lon = Float(TRUE, 720)
    /\ record.fill_that_hole_url
           = UrlPlain \o S_around \o << "-", "3", "3", ".", "0", "0", "0", "4", "1", "7" >>
                 \o S_lon \o << "-", "0", ".", "1" >> \o S_zoom

(***************************************************************************)
(* The properties of the record main builds                                *)
(***************************************************************************)

\* The names of the entries the scan keeps
ScannedNames == { e.name : e \in ScannedEntries }

\* C18: a record main builds has the path, coordinates and capture time of
\* the selected image, the postcode and address of the single geocode
\* result, the text, attributes and email computed before extraction, and
\* the names of all scanned images in scan order, skipped ones included.
C18_RecordFields ==
    record # NoRecord =>
        /\ earliest \in LocatedImages
        /\ record.path = earliest.path
        /\ record.lat = earliest.lat /\ record.lon = earliest.lon
        /\ record.datetime_taken = earliest.datetime_taken
        /\ Len(geocode_calls) = 1
        /\ geocoded.some
        /\ record.postcode = geocoded.postcode /\ record.address = geocoded.address
        /\ record.postcode = Strip(ProviderPostcode)
        /\ record.address = provider.address
        /\ record.generated_report_text = GenerateReportText(attributes, config).v
        /\ record.attributes = attributes
        /\ record.email = load_result.config.email
        /\ { record.image_names[i] : i \in DOMAIN record.image_names } = ScannedNames
        /\ Len(record.image_names) = Cardinality(ScannedNames)
        /\ Len(record.image_names) = Len(extract_calls)
        /\ \A i, j \in DOMAIN record.image_names :
               i < j => StrLess(record.image_names[i], record.image_names[j])

\* A record made from a folder of three images of which two were skipped,
\* one as unreadable and one without GPS.
C18_Witness ==
    /\ record # NoRecord
    /\ skipped_unreadable = 1
    /\ skipped_no_gps = 1
    /\ Len(record.image_names) = 3
    /\ record.path \in ScannedNames

(***************************************************************************)
(* The properties of extract_all                                           *)
(***************************************************************************)

\* The image extract_all was called with
ExtractedImage == paths[1].img

AllPresent(gps) ==
    gps.lat_data # <<>> /\ gps.lat_ref # <<>> /\ gps.lon_data # <<>> /\ gps.lon_ref # <<>>

ThreeEach(gps) == Len(gps.lat_data) = 3 /\ Len(gps.lon_data) = 3

\* C19: for an image that opens, extract raises nothing; it returns
\* coordinates exactly when the image has all four GPS fields non-empty with
\* three components in each array, and no location otherwise; extract_all
\* returns nothing exactly when extract returns no location.
C19_MalformedIsNoLocation ==
    pc = "extracted" /\ ExtractedImage.opens =>
        /\ console = <<>>
        /\ Extract(ExtractedImage).raised = "none"
        /\ Extract(ExtractedImage).v.some
               <=> /\ ExtractedImage.has_exif
                   /\ AllPresent(ExtractedImage.gps)
                   /\ ThreeEach(ExtractedImage.gps)
        /\ extracted_list = <<>> <=> ~Extract(ExtractedImage).v.some

\* A latitude of two components with every field present: no location
C19_Witness ==
    /\ pc = "extracted"
    /\ ExtractedImage.opens
    /\ ExtractedImage.has_exif
    /\ AllPresent(ExtractedImage.gps)
    /\ Len(ExtractedImage.gps.lat_data) = 2
    /\ Len(ExtractedImage.gps.lon_data) = 3
    /\ extracted_list = <<>>
    /\ console = <<>>

\* The field extract_datetime reads: the original capture field when it is
\* non-empty, the generic date field otherwise
NonEmptyField(v) == v.t # "null" /\ v.s # <<>>

ChosenField(img) == IF NonEmptyField(img.dto) THEN img.dto ELSE img.dt

\* YYYY:MM:DD HH:MM:SS
ExifForm(s) ==
    /\ Len(s) = 19
    /\ \A i \in { 5, 8, 14, 17 } : s[i] = ":"
    /\ s[11] = " "
    /\ \A i \in (1..19) \ { 5, 8, 11, 14, 17 } : IsDigit(s[i])

FieldAt(s, first, last) == Number(SubSeq(s, first, last))

\* The fields name a moment of the calendar
ValidMoment(s) ==
    /\ FieldAt(s, 1, 4) >= 1
    /\ FieldAt(s, 6, 7) \in 1..12
    /\ FieldAt(s, 9, 10) \in 1..DaysInMonth(FieldAt(s, 1, 4), FieldAt(s, 6, 7))
    /\ FieldAt(s, 12, 13) <= 23
    /\ FieldAt(s, 15, 16) <= 59
    /\ FieldAt(s, 18, 19) <= 59

\* YYYY-MM-DD HH:MM of a value of the form
Reformatted(s) ==
    SubSeq(s, 1, 4) \o << "-" >> \o SubSeq(s, 6, 7) \o << "-" >> \o SubSeq(s, 9, 10)
        \o << " " >> \o SubSeq(s, 12, 16)

\* A string that cannot be read as a timestamp: of the form without naming
\* a moment, or without the four colons
Unparseable(s) ==
    \/ ExifForm(s) /\ ~ValidMoment(s)
    \/ Cardinality({ i \in DOMAIN s : s[i] = ":" }) # 4

\* What C20 says of a call that returned data, for the values of the form
\* that satisfy `covered`
TimestampRule(covered(_)) ==
    pc = "extracted" /\ Extract(ExtractedImage).raised = "none"
        /\ Extract(ExtractedImage).v.some =>
        LET v == ChosenField(ExtractedImage)
        IN  /\ console = <<>>
            /\ Len(extracted_list) = 1
            /\ v.t = "str" /\ ExifForm(v.s) /\ ValidMoment(v.s) /\ covered(v.s)
                   => extracted_list[1].datetime_taken = Some(Reformatted(v.s))
            /\ v.t # "str" \/ v.s = <<>> \/ Unparseable(v.s)
                   => extracted_list[1].datetime_taken = None
            /\ extracted_list[1].lat = Extract(ExtractedImage).v.lat
            /\ extracted_list[1].lon = Extract(ExtractedImage).v.lon

AnyYear(s) == TRUE

\* C20: extract_datetime reads the original capture field when it is
\* non-empty and the generic date field otherwise; a value of the form
\* YYYY:MM:DD HH:MM:SS comes back as YYYY-MM-DD HH:MM; an absent, non-string
\* or unparseable value gives no timestamp, nothing is raised and the
\* coordinates of the image are the ones extract returns.
C20_Timestamp == TimestampRule(AnyYear)

\* The year 0999 where strftime does not pad the year: three digits come back
C20_Witness ==
    /\ pc = "extracted"
    /\ ~platform.pads_year
    /\ ChosenField(ExtractedImage) = YStr(T_999)
    /\ Len(extracted_list) = 1
    /\ extracted_list[1].datetime_taken = Some(Tail(Reformatted(T_999)))

YearWrittenInFull(s) == platform.pads_year \/ FieldAt(s, 1, 4) >= 1000

\* C20 holds of the years from 1000 on, and of every year where strftime
\* pads the year.
C20_WhenYearInFull == TimestampRule(YearWrittenInFull)

\* The original capture field wins over the generic one; the seconds go
C20_OriginalPreferred ==
    /\ pc = "extracted"
    /\ ExtractedImage.dto = YStr(T1)
    /\ ExtractedImage.dt = YStr(T2)
    /\ Len(extracted_list) = 1
    /\ extracted_list[1].datetime_taken = Some(Reformatted(T1))

\* The numerator a component n/d contributes, and the denominator to work
\* with: a zero denominator contributes 0
Numer(r) == IF r[2] = 0 THEN 0 ELSE r[1]
Denom(r) == IF r[2] = 0 THEN 1 ELSE r[2]

\* x is degrees + minutes/60 + seconds/3600 of the triplet, cross-multiplied
\* by the three denominators
IsDmsSum(x, data) ==
    x.units * Denom(data[1]) * Denom(data[2]) * Denom(data[3])
        = UnitsPerDegree * Numer(data[1]) * Denom(data[2]) * Denom(data[3])
          + (UnitsPerDegree \div 60) * Numer(data[2]) * Denom(data[1]) * Denom(data[3])
          + (UnitsPerDegree \div 3600) * Numer(data[3]) * Denom(data[1]) * Denom(data[2])

Southwest == { << "S" >>, << "W" >> }

\* C21: the decoded latitude and longitude have the magnitude
\* degrees + minutes/60 + seconds/3600 of their triplets, a component with a
\* zero denominator counting as 0, and each is negated exactly when its
\* reference is S or W.
C21_DmsToDecimal ==
    pc = "extracted" /\ extracted_list # <<>> =>
        LET gps == ExtractedImage.gps
            e == extracted_list[1]
        IN  /\ IsDmsSum(e.lat, gps.lat_data)
            /\ IsDmsSum(e.lon, gps.lon_data)
            /\ e.lat.neg <=> gps.lat_ref \in Southwest
            /\ e.lon.neg <=> gps.lon_ref \in Southwest

\* 33 deg 0' 1.5" S with a western longitude whose seconds are 0/0
C21_Witness ==
    /\ pc = "extracted"
    /\ extracted_list # <<>>
    /\ ExtractedImage.gps.lat_data = Gps2.lat_data
    /\ ExtractedImage.gps.lat_ref = << "S" >>
    /\ ExtractedImage.gps.lon_data[3] = << 0, 0 >>
    /\ ExtractedImage.gps.lon_ref = << "W" >>
    /\ extracted_list[1].lat = Float(TRUE, 33 * UnitsPerDegree + 3)
    /\ extracted_list[1].lon = Float(TRUE, 0)

\* A reference that names no hemisphere leaves the longitude as it is
C21_OtherReference ==
    /\ pc = "extracted"
    /\ extracted_list # <<>>
    /\ ExtractedImage.gps.lon_ref = << "x" >>
    /\ ~extracted_list[1].lon.neg

(***************************************************************************)
(* The exceptions of load_config in main                                   *)
(***************************************************************************)

LoadAnswered == pc # "load_config"

\* What C22 says of the runs in which `covered` holds
LoadFailureRule(covered) ==
    LoadAnswered /\ covered =>
        /\ load_result.kind \in { "ok", "FileNotFoundError", "ValueError" }
        /\ load_result.kind # "ok" =>
               pc = "exit" /\ exit_status = 1 /\ console = << "Error" >>

\* C22: load_config returns a configuration or raises FileNotFoundError or
\* ValueError, whatever the existing file holds, and main answers each
\* failure with an error message and exit status 1.
C22_TwoExceptionsOnly == LoadFailureRule(TRUE)

\* A file whose top level is a list: AttributeError leaves main uncaught
C22_Witness ==
    /\ pc = "exit"
    /\ ExistingCandidates # <<>>
    /\ OpenedFile = File(DocTopList)
    /\ load_result.kind = "AttributeError"
    /\ console = << "Traceback" >>

\* A file that is not well-formed YAML: yaml.YAMLError leaves main uncaught
C22_Malformed ==
    /\ pc = "exit"
    /\ ExistingCandidates # <<>>
    /\ OpenedFile = Malformed
    /\ load_result.kind = "YAMLError"
    /\ console = << "Traceback" >>

\* C22 holds when no candidate exists or the file opened parses to a mapping.
C22_WhenMapping == LoadFailureRule(ExistingCandidates = <<>> \/ ParsesToMapping)

\* A structural error of a mapping is a ValueError, answered with status 1
C22_ShapeErrorAnswered ==
    /\ pc = "exit"
    /\ ParsesToMapping
    /\ load_result.kind = "ValueError"
    /\ load_result.error \in ShapeErrors
    /\ exit_status = 1

(***************************************************************************)
(* The flags of main                                                       *)
(***************************************************************************)

\* No flag yields a selection: each is absent or empty, or names a category
\* the configuration does not define
NoFlagSelects ==
    \A i \in DOMAIN args.flags :
        \/ args.flags[i][2] = <<>>
        \/ ~HasKey(load_result.config.attributes, args.flags[i][1])

\* C23: in flag mode, when no flag yields a selection and the folder holds an
\* eligible image, main exits with status 1 at the attributes step: no image
\* is extracted and the geocoder is not called.
C23_NoSelectionExits ==
    ConfigLoaded /\ ~args.interactive /\ NoFlagSelects
        /\ args.folder_given /\ folder.is_dir /\ ScannedEntries # {} =>
        /\ pc \in { "scan", "attributes", "exit" }
        /\ extract_calls = <<>>
        /\ geocode_calls = <<>>
        /\ record = NoRecord
        /\ pc = "exit" =>
               exit_status = 1 /\ console = << "No attributes specified." >>

\* Only --width is given, a category the configuration lacks
C23_Witness ==
    /\ pc = "exit"
    /\ ConfigLoaded
    /\ ~args.interactive
    /\ NoFlagSelects
    /\ FlagValue(args.flags, S_width) # <<>>
    /\ ScannedEntries # {}
    /\ attributes = <<>>
    /\ exit_status = 1
    /\ extract_calls = <<>>

\* The attributes step of a flag-mode run has been taken
FlagsLookedAt ==
    /\ ConfigLoaded
    /\ ~args.interactive
    /\ args.folder_given /\ folder.is_dir /\ ScannedEntries # {}
    /\ pc \notin { "scan", "attributes" }

\* The step ended the run with an error about a flag
FlagsRejected ==
    pc = "exit" /\ console = << "Error" >> /\ attributes = <<>> /\ extract_calls = <<>>

\* The flags that select, as given, in the order of the loop
RECURSIVE GivenSelection(_)
GivenSelection(names) ==
    IF names = <<>> THEN <<>>
    ELSE LET value == FlagValue(args.flags, Head(names))
         IN  (IF value # <<>> /\ HasKey(load_result.config.attributes, Head(names))
              THEN << << Head(names), value >> >> ELSE <<>>)
                 \o GivenSelection(Tail(names))

\* The selection the text generator reads from an accepted list is the list
\* of its non-blank items, trimmed, in the order given
OrderKept ==
    \A i \in DOMAIN attributes :
        attributes[i][1] \in MultiSelect /\ HasChar(attributes[i][2], ",") =>
            ParseValue(attributes[i][2]) = Items(FlagValue(args.flags, attributes[i][1]))

\* C24, as the code has it: a flag of a defined category is accepted exactly
\* when, for --location and --visibility with a comma in the value, every
\* non-blank item, trimmed, is a key of the category (a value without such
\* an item is accepted), and otherwise when the whole value is a key; the
\* accepted selection holds the values as given, items in the order given.
C24_FlagAcceptance ==
    FlagsLookedAt =>
        /\ FlagsRejected <=> SomeFlagInvalid
        /\ ~SomeFlagInvalid => attributes = GivenSelection(PhraseCategories) /\ OrderKept

\* " b ,a" for --location and "a,b" for --visibility are accepted as given
C24_Witness ==
    /\ FlagsLookedAt
    /\ ~FlagsRejected
    /\ FlagValue(args.flags, S_location) = << " ", "b", " ", ",", "a" >>
    /\ FlagValue(args.flags, S_visibility) = << "a", ",", "b" >>
    /\ Lookup(attributes, S_location) = << " ", "b", " ", ",", "a" >>
    /\ ParseValue(Lookup(attributes, S_location)) = << B, A >>
    /\ ParseValue(Lookup(attributes, S_visibility)) = << A, B >>

\* A list of keys for --surface, with valid flags otherwise, is rejected
C24_ListRejected ==
    /\ FlagsLookedAt
    /\ FlagsRejected
    /\ FlagValue(args.flags, S_surface) = << "a", ",", "a" >>
    /\ \A i \in DOMAIN args.flags :
           args.flags[i][1] # S_surface =>
               ~FlagInvalid(args.flags[i][1], args.flags[i][2])

\* Some item between the commas, taken as written, is not a key
ItemNotKey(name, value) ==
    /\ value # <<>>
    /\ HasKey(load_result.config.attributes, name)
    /\ LET known == Lookup(load_result.config.attributes, name)
       IN  IF name \in MultiSelect /\ HasChar(value, ",")
           THEN \E i \in DOMAIN Split(value, ",") : ~HasKey(known, Split(value, ",")[i])
           ELSE ~HasKey(known, value)

\* C24, as the specification has it: a comma-separated value is accepted
\* exactly when every comma-separated item is a key.
C24_EveryItemAKey ==
    FlagsLookedAt =>
        (FlagsRejected <=>
             \E i \in DOMAIN args.flags : ItemNotKey(args.flags[i][1], args.flags[i][2]))

(***************************************************************************)
(* The properties of load_check_config                                     *)
(***************************************************************************)

CheckCandidates == CheckConfigPaths(args.config)

ExistingCheckFiles == SelectSeq(CheckCandidates, LAMBDA p : fs[p].exists)

OpenedCheckFile == fs[ExistingCheckFiles[1]]

CheckIsMapping == OpenedCheckFile.wellformed /\ OpenedCheckFile.doc.t = "map"

FileSites == YGet(OpenedCheckFile.doc, S_check_sites)

NonBlank(s) == \E i \in DOMAIN s : s[i] \notin Whitespace

\* A mapping with a non-blank string `name` and a non-blank string `url`
ValidSite(e) ==
    /\ e.t = "map"
    /\ YGet(e, S_name).t = "str" /\ NonBlank(YGet(e, S_name).s)
    /\ YGet(e, S_url).t = "str" /\ NonBlank(YGet(e, S_url).s)

NoSitesListed ==
    \/ ExistingCheckFiles = <<>>
    \/ CheckIsMapping /\ (FileSites.t = "null" \/ FileSites = YList(<<>>))

InvalidCheckFile ==
    /\ ExistingCheckFiles # <<>>
    /\ \/ ~OpenedCheckFile.wellformed
       \/ OpenedCheckFile.doc.t # "map"
       \/ FileSites.t \notin { "null", "list" }
       \/ FileSites.t = "list" /\ \E i \in DOMAIN FileSites.kv : ~ValidSite(FileSites.kv[i][2])

\* C25: load_check_config returns [] exactly when no candidate exists or the
\* first existing file is a mapping without check_sites or with an empty
\* list; it raises ValueError exactly when that file is not well-formed, not
\* a mapping, has a check_sites that is no list, or has an entry that is not
\* a mapping with non-blank strings name and url; otherwise it returns the
\* entries in file order with name and url trimmed and not empty.
C25_CheckSites ==
    pc = "check_loaded" =>
        /\ load_result.kind \in { "ok", "ValueError" }
        /\ (load_result.kind = "ok" /\ load_result.config = <<>>) <=> NoSitesListed
        /\ load_result.kind = "ValueError" <=> InvalidCheckFile
        /\ load_result.kind = "ok" /\ ~NoSitesListed =>
               /\ Len(load_result.config) = Len(FileSites.kv)
               /\ \A i \in DOMAIN load_result.config :
                      LET site == load_result.config[i]
                          entry == FileSites.kv[i][2]
                      IN  /\ site.name = Strip(YGet(entry, S_name).s)
                          /\ site.url = Strip(YGet(entry, S_url).s)
                          /\ site.name # <<>> /\ site.url # <<>>
                          /\ ~HasOuterWhitespace(site.name)
                          /\ ~HasOuterWhitespace(site.url)

\* Two entries come back in file order, trimmed
C25_Witness ==
    /\ pc = "check_loaded"
    /\ ExistingCheckFiles # <<>>
    /\ FileSites = YList(<< OtherSite, GoodSite >>)
    /\ load_result.kind = "ok"
    /\ load_result.config
           = << CheckSite(A, << "u" >>),
                CheckSite(<< "O", "S", " ", "M", "a", "p" >>, SiteUrl) >>

\* An empty file is not a mapping: ValueError, although a later candidate
\* holds a valid list
C25_EmptyFileRaises ==
    /\ pc = "check_loaded"
    /\ ExistingCheckFiles # <<>>
    /\ OpenedCheckFile = File(YNull)
    /\ Len(ExistingCheckFiles) = 2
    /\ load_result.kind = "ValueError"

(***************************************************************************)
(* The order of loading and scanning in main                               *)
(***************************************************************************)

NothingProcessed == paths = <<>> /\ extract_calls = <<>> /\ geocode_calls = <<>>

\* C26: main loads and validates the configuration before it scans the
\* folder or opens an image: until load_config has returned a configuration
\* nothing is scanned, extracted or geocoded, and a run whose load_config
\* failed is at its exit with status 1.
C26_ConfigBeforeScan ==
    ~ConfigLoaded =>
        /\ pc \in { "load_config", "exit" }
        /\ NothingProcessed
        /\ record = NoRecord
        /\ pc = "exit" => exit_status = 1

\* A structural error in the file, a folder that holds an image: exit 1
\* without a scan
C26_Witness ==
    /\ pc = "exit"
    /\ load_result.kind = "ValueError"
    /\ load_result.error \in ShapeErrors
    /\ args.folder_given
    /\ ScannedEntries # {}
    /\ exit_status = 1
    /\ NothingProcessed

\* No candidate file exists: exit 1 without a scan
C26_NotFound ==
    /\ pc = "exit"
    /\ load_result.kind = "FileNotFoundError"
    /\ ScannedEntries # {}
    /\ exit_status = 1
    /\ NothingProcessed

(***************************************************************************)
(* Where the email of the configuration comes from                         *)
(***************************************************************************)

\* The account a file names, for a file that parses to a mapping
AccountOf(file) ==
    PyStr(YGetOr(IF Truthy(file.doc) THEN file.doc ELSE YMap(<<>>),
                 S_keyring_account, YStr(S_email)))

IsMappingFile(file) ==
    file.exists /\ file.wellformed /\ (~Truthy(file.doc) \/ file.doc.t = "map")

\* C27: the email of the configuration load_config returns is the trimmed
\* value the credential store holds under (service name, keyring_account),
\* and every other file that names the same account yields the same email,
\* whatever else it holds, an `email` key included.
C27_EmailFromStoreOnly ==
    pc = "loaded" /\ load_result.kind = "ok" =>
        /\ HasKey(keyring, ConfiguredAccount)
        /\ config.email = Strip(Lookup(keyring, ConfiguredAccount))
        /\ config.keyring_service = SERVICE_NAME
        /\ config.keyring_account = ConfiguredAccount
        /\ \A other \in ConfigFiles :
               IsMappingFile(other) /\ AccountOf(other) = ConfiguredAccount =>
                   LET again == LoadFrom(OverridePath, other, keyring)
                   IN  again.kind = "ok" => again.config.email = config.email

\* The file writes an email of its own and names the account `work`: the
\* email returned is the trimmed entry of the store under `work`
C27_Witness ==
    /\ pc = "loaded"
    /\ load_result.kind = "ok"
    /\ OpenedFile = File(DocAccountEmailInFile)
    /\ HasKey(keyring, S_email)
    /\ Lookup(keyring, S_work) = Mail2
    /\ config.email = Strip(Mail2)
    /\ config.email # Mail3

(***************************************************************************)
(* The order of the directory listing                                      *)
(***************************************************************************)

\* The orders in which the directory can enumerate the same files
Orders(listing) ==
    { [i \in DOMAIN listing |-> listing[f[i]]] : f \in Permutations(DOMAIN listing) }

\* What main computes from a listing, under the configuration, attributes
\* and geocoder answer of the run: the scanned paths, the located images,
\* the selected image and the record
ScanOf(listing) == ScanFolder(Dir(listing)).v

LocatedOf(listing) ==
    LET kept == SelectSeq(ScanOf(listing), LAMBDA p : ExtractAll(p).kind = "data")
    IN  [i \in DOMAIN kept |-> ExtractAll(kept[i]).data]

SelectedOf(listing) ==
    LET located == LocatedOf(listing)
    IN  SortedByKey([i \in DOMAIN located |-> << SortKey(located[i]), located[i] >>])[1]

RecordOf(listing) ==
    BuildReportRecord(SelectedOf(listing), geocoded, config.report_url, config.email,
                      attributes, AttributeDescriptions(<<>>, attributes, config.attributes),
                      generated_report_text,
                      [i \in DOMAIN ScanOf(listing) |-> ScanOf(listing)[i].name])

Scanned == ConfigLoaded /\ args.folder_given /\ folder.is_dir /\ pc # "scan"

\* C28: whatever order the directory enumerates the same files in, the
\* scanned paths, the selected image and the record are the ones of this
\* run.
C28_ListingOrderInvisible ==
    Scanned =>
        \A other \in Orders(folder.listing) :
            /\ paths = ScanOf(other)
            /\ SelectionMade => earliest = SelectedOf(other)
            /\ record # NoRecord => record = RecordOf(other)

\* A record from three images listed against the order of their names, two
\* of them located and taken in the same minute
C28_Witness ==
    /\ record # NoRecord
    /\ Len(folder.listing) = 3
    /\ StrLess(folder.listing[3].name, folder.listing[2].name)
    /\ StrLess(folder.listing[2].name, folder.listing[1].name)
    /\ \E e \in LocatedImages \ { earliest } : e.datetime_taken = earliest.datetime_taken
    /\ earliest.path # paths[1].name

(***************************************************************************)
(* The exceptions of _generate_report_text                                 *)
(***************************************************************************)

\* main's flag validation accepts the value for the category
ValueAccepted(category, value) ==
    /\ value # <<>>
    /\ HasKey(config.attributes, category)
    /\ LET known == Lookup(config.attributes, category)
       IN  IF category \in MultiSelect /\ HasChar(value, ",")
           THEN \A i \in DOMAIN Items(value) : HasKey(known, Items(value)[i])
           ELSE HasKey(known, value)

\* The selection is one the flag validation lets through
SelectionAccepted ==
    /\ attributes # <<>>
    /\ \A i \in DOMAIN attributes : ValueAccepted(attributes[i][1], attributes[i][2])

\* C29: for every configuration load_config returns and every selection the
\* flag validation accepts, _generate_report_text returns a string and
\* raises nothing.
C29_TextNeverRaises ==
    pc = "generated" /\ SelectionAccepted => console = <<>>

\* `depth_description` is a scalar that contains the selected key: TypeError
C29_Witness ==
    /\ pc = "generated"
    /\ SelectionAccepted
    /\ HasKey(config.attribute_phrases, Desc(S_depth))
    /\ Lookup(config.attribute_phrases, Desc(S_depth)).t = "str"
    /\ HasKey(attributes, S_depth)
    /\ Lookup(attributes, S_depth) = A
    /\ console = << "TypeError" >>

\* `severity` is a scalar and a depth is selected: AttributeError
C29_ScalarSeverity ==
    /\ pc = "generated"
    /\ SelectionAccepted
    /\ HasKey(config.attribute_phrases, S_severity)
    /\ Lookup(config.attribute_phrases, S_severity).t = "str"
    /\ console = << "AttributeError" >>

\* C29 holds of the configurations whose attribute_phrases entries are all
\* tables.
C29_WhenTables ==
    pc = "generated" /\ SelectionAccepted /\ TextPhrasesAreTables => console = <<>>

\* A scalar phrase entry that does not contain the selected key does no
\* harm: the text is returned
C29_ScalarUnharmful ==
    /\ pc = "generated"
    /\ SelectionAccepted
    /\ ~TextPhrasesAreTables
    /\ console = <<>>
    /\ generated_report_text # <<>>

(***************************************************************************)
(* cli.py: the setup and remove-keyring commands, and the report's         *)
(* load_config after them                                                  *)
(***************************************************************************)

\* The account both commands address: "email", unless a config path was
\* given on the command line and exists, then the file's keyring_account.
\* The default search path is not consulted.
KeyringAccount(config_path, files) ==
    IF config_path # NoPath /\ files[config_path].exists
    THEN LET file == files[config_path]
             data == IF Truthy(file.doc) THEN file.doc ELSE YMap(<<>>)
         IN  IF ~file.wellformed THEN Raise("YAMLError")
             ELSE IF data.t # "map" THEN Raise("AttributeError")
             ELSE Ok(PyStr(YGetOr(data, S_keyring_account, YStr(S_email))))
    ELSE Ok(S_email)

\* keyring.delete_password(SERVICE_NAME, account), of an entry that exists
DeletePassword(store, account) == SelectSeq(store, LAMBDA e : e[1] # account)

\* The commands run one after another before the report
MaxCommands == 3

KeyringLocals ==
    << load_result, config, paths, attributes, severity, generated_report_text,
       idx, extracted_list, skipped_no_gps, skipped_unreadable, earliest,
       geocoded, record, extract_calls, geocode_calls >>

\* main with the `setup` subcommand: _run_setup(args.config)
RunSetup ==
    /\ pc \in { "shell", "removed" }
    /\ Len(console) < MaxCommands
    /\ LET account == KeyringAccount(args.config, fs)
           email == Strip(stdin)
       IN  IF account.raised # "none"
           THEN /\ console' = Append(console, "Traceback")
                /\ exit_status' = 1
                /\ pc' = "exit"
                /\ UNCHANGED keyring
           ELSE IF email = <<>>
           THEN /\ console' = Append(console, "empty_email")
                /\ exit_status' = 1
                /\ pc' = "exit"
                /\ UNCHANGED keyring
           ELSE /\ keyring' = Put(keyring, account.v, email)
                /\ console' = Append(console, "stored")
                /\ pc' = "stored"
                /\ UNCHANGED exit_status
    /\ UNCHANGED << args, fs, stdin, folder, provider, platform, KeyringLocals >>

\* main with the `remove-keyring` subcommand: _run_remove_keyring(args.config)
RunRemoveKeyring ==
    /\ pc \in { "shell", "stored" }
    /\ Len(console) < MaxCommands
    /\ LET account == KeyringAccount(args.config, fs)
       IN  IF account.raised # "none"
           THEN /\ console' = Append(console, "Traceback")
                /\ exit_status' = 1
                /\ pc' = "exit"
                /\ UNCHANGED keyring
           ELSE IF HasKey(keyring, account.v)
           THEN /\ keyring' = DeletePassword(keyring, account.v)
                /\ console' = Append(console, "removed")
                /\ pc' = "removed"
                /\ UNCHANGED exit_status
           ELSE /\ console' = Append(console, "no_entry")
                /\ pc' = "removed"
                /\ UNCHANGED << keyring, exit_status >>
    /\ UNCHANGED << args, fs, stdin, folder, provider, platform, KeyringLocals >>

\* The report flow under the same options, as far as load_config
ReportLoadConfig ==
    /\ pc \in { "stored", "removed" }
    /\ load_result' = LoadConfig(args.config, fs, keyring)
    /\ config' = load_result'.config
    /\ pc' = "loaded"
    /\ UNCHANGED << inputs, exit_status, paths, attributes, severity,
                    generated_report_text, idx, extracted_list, skipped_no_gps,
                    skipped_unreadable, earliest, geocoded, record, console,
                    extract_calls, geocode_calls >>

KeyringFiles ==
    { Missing, Malformed, File(DocPlain), File(DocAccount), File(DocTopList),
      File(DocEmpty), File(DocNoTemplate) }

TypedLines == { <<>>, << " " >>, Mail1, Mail2, Mail3 }

InitKeyring ==
    /\ args \in { Args(c, TRUE, FALSE, <<>>) : c \in { NoPath, OverridePath } }
    /\ fs \in { FsOf(o, p, h) : o \in KeyringFiles, p \in KeyringFiles,
                                h \in { Missing, File(DocPlain), File(DocAccount) } }
    /\ keyring \in ConfigKeyrings
    /\ stdin \in TypedLines
    /\ folder = Dir(<<>>)
    /\ provider = ProviderOk
    /\ platform = BareYear
    /\ pc = "shell"
    /\ exit_status = -1
    /\ Unassigned

NextKeyring == RunSetup \/ RunRemoveKeyring \/ ReportLoadConfig

SpecKeyring == InitKeyring /\ [][NextKeyring]_vars

(***************************************************************************)
(* The properties of the keyring commands                                  *)
(***************************************************************************)

LastMessage == console[Len(console)]

\* load_config did not reject the file for its own content: it returned, or
\* it failed for the email alone.
ValidForReport ==
    \/ load_result.kind = "ok"
    \/ load_result.kind = "ValueError" /\ load_result.error = "email_not_found"

\* After a setup that stored an email the report's load_config returns that
\* email; after remove-keyring it fails with email-not-found.
SameEntryRule(covered) ==
    (pc = "loaded" /\ covered) =>
        /\ (LastMessage = "stored" /\ ValidForReport) =>
              /\ load_result.kind = "ok"
              /\ load_result.config.email = Strip(stdin)
        /\ (LastMessage \in { "removed", "no_entry" } /\ ParsesToMapping) =>
              /\ load_result.kind = "ValueError"
              /\ load_result.error = "email_not_found"

\* C30: setup, remove-keyring and the report, run with the same options,
\* address the same entry of the credential store: after setup has stored a
\* non-empty email load_config returns it, and after remove-keyring
\* load_config fails with email-not-found, with an explicit config path and
\* with a file found through the default search path alike.
C30_SameEntry == SameEntryRule(TRUE)

\* A file found through the default search path names the account "work";
\* setup has stored the typed email, and load_config finds no email.
C30_Witness ==
    /\ pc = "loaded"
    /\ args.config = NoPath
    /\ ExistingCandidates # <<>>
    /\ OpenedFile = File(DocAccount)
    /\ ConfiguredAccount = S_work
    /\ LastMessage = "stored"
    /\ load_result.error = "email_not_found"
    /\ load_result.key = S_work
    /\ HasKey(keyring, S_email)
    /\ Lookup(keyring, S_email) = Strip(stdin)

\* C30, where it holds: with an explicit config path, or with a file of the
\* default search path that names the account "email" or none, the three
\* flows address the same entry.
C30_WhenAccountsAgree ==
    SameEntryRule(args.config # NoPath \/ ~ParsesToMapping \/ ConfiguredAccount = S_email)

\* C30, remove-keyring: the entry of the configured account survives it
\* when the file was found through the default search path.
C30_RemoveLeavesEntry ==
    /\ pc = "loaded"
    /\ args.config = NoPath
    /\ ParsesToMapping
    /\ ConfiguredAccount = S_work
    /\ LastMessage \in { "removed", "no_entry" }
    /\ load_result.kind = "ok"

\* C30, the explicit path: setup stored under the account the file names
\* and load_config returned the email.
C30_ExplicitPathStored ==
    /\ pc = "loaded"
    /\ args.config = OverridePath
    /\ ParsesToMapping
    /\ ConfiguredAccount = S_work
    /\ LastMessage = "stored"
    /\ load_result.kind = "ok"
    /\ load_result.config.email = Strip(stdin)

====
